---- MODULE Spec2Model ----
(***************************************************************************)
(* A state-machine model of the resilience core of ai-custdev-cli:         *)
(*   - LlmClient.createChatCompletion  (retry / backoff loop)              *)
(*   - extractJsonBlock                (JSON-from-prose extractor)         *)
(*   - InterviewSession.run            (interview state machine)           *)
(*   - simulateInterviews              (p-limit bounded, resumable batch)  *)
(*   - analyzeInterviews               (multi-model fallback cascade)      *)
(* Each component has its own specification; the variables of the other    *)
(* components are parked at their idle value and left unchanged.           *)
(***************************************************************************)
EXTENDS Integers, Sequences, FiniteSets, TLC

VARIABLES
    \* ---- LlmClient (one createChatCompletion invocation) ----
    maxRetries,        \* this.maxRetries
    initialBackoffMs,  \* this.initialBackoffMs
    attempt,           \* local `attempt`
    backoff,           \* local `backoff`
    cpc,               \* "idle" | "calling" | "returned" | "raised"
    netLog,            \* outcomes of the network calls issued so far
    sleepLog,          \* delayMs of every sleep performed so far
    result,            \* response.data handed to the caller, or NoResult
    activeTracker,     \* module-level activeTracker of utils/progress
    ticks              \* (history) reportProgress calls of this invocation

clientVars == <<maxRetries, initialBackoffMs, attempt, backoff, cpc, netLog,
                sleepLog, result, activeTracker, ticks>>

\* ---- simulateInterviews (one batch) ----
VARIABLES
    concurrency,       \* config.settings.concurrency
    storage,           \* the .json files of <outputDir>/logs
    completedPersonaIds, \* result of loadCompletedPersonaIds
    tstate,            \* per persona: "new" | "skipped" | "queued" | "running"
                       \*   | "writing" | "done" | "failed"
    stepsDone,         \* per persona: script steps its run() has completed
    queue,             \* p-limit's queue of tasks not yet started
    activeCount,       \* p-limit's activeCount
    bpc,               \* "idle" | "init" | "awaiting" | "resolved" | "rejected"
    rejectedWith,      \* persona whose error rejected Promise.all, or 0
    startedAtFailure,  \* (history) personas started when the batch was rejected
    writes,            \* (history) per persona: writeSession calls completed
    storageAtStart,    \* (history) the files of logs/ when the batch was called
    invocation,        \* (history) which call of simulateInterviews this is
    prevOutcome,       \* (history) how the call before ended: "none" |
                       \*   "resolved" | "failed" | "interrupted"
    writtenAfterFailure \* (history) personas whose record was written after
                       \*   the batch was rejected

batchVars == <<concurrency, storage, completedPersonaIds, tstate, stepsDone, queue,
               activeCount, bpc, rejectedWith, startedAtFailure, writes,
               storageAtStart, invocation, prevOutcome, writtenAfterFailure>>

\* ---- analyzeInterviews (one run over the loaded sessions) ----
VARIABLES
    aSession,          \* index of the session being analysed (loop variable)
    aModel,            \* index into modelsToTry of the model being tried
    aPhase,            \* "idle" | "content" | "reminder" | "done" | "raised"
    aAttempt,          \* requestAnalysisContent's `attempt` (1..3)
    rows,              \* the AnalysisRow list built so far
    aHist              \* (history) requests and outcome of the session last
                       \*   worked on: see NewHist

analyzeVars == <<aSession, aModel, aPhase, aAttempt, rows, aHist>>

\* ---- InterviewSession (one run()) ----
VARIABLES
    sMode,             \* this.interviewerMode: "script" | "llm"
    sStep,             \* 1-based index of the script step of the loop
    sPhase,            \* "idle" | "interviewer" | "respondent" | "done" | "failed"
    sAttempt,          \* requestContent's `attempt`
    messages,          \* run()'s `messages`: the transcript
    sRequests,         \* (history) completion requests issued, by label
    sWaits,            \* (history) delays (ms) waited within the current request
    sReturned,         \* the session run() resolved with, or NoSession
    sError,            \* message of the Error run() rejected with, or ""
    sResponse,         \* (history) outcome of the last completion request: the
                       \*   message received, RaisedResponse, or NoResponse
    sEmptyAnswers,     \* (history) respondent responses treated as empty
    sSent              \* (history) messages of the last completion request

sessionVars == <<sMode, sStep, sPhase, sAttempt, messages, sRequests, sWaits,
                 sReturned, sError, sResponse, sEmptyAnswers,
                 sSent>>

\* ---- extractJsonBlock (one call) ----
VARIABLES
    xValue,            \* the JSON value the text was made from
    xText,             \* content, the argument of extractJsonBlock
    xOut,              \* the returned string, or null (found = FALSE)
    xpc,               \* "idle" | "value" | "text" | "extracted"
    xKind,             \* how content was made: "none" | "fenced" | "prose"
    xInner,            \* the text of the value inside content
    xStart             \* the position in content where that text begins

extractVars == <<xValue, xText, xOut, xpc, xKind, xInner, xStart>>

\* ---- ProgressTracker shared by concurrently running sessions ----
VARIABLES
    pTracker,          \* module-level activeTracker: the registered tracker
    pCallers,          \* per session: "idle" | "awaiting" (a post in flight)
    pCalls,            \* (history) successful calls since the registration
    pFails,            \* (history) failed calls since the registration
    pPrev,             \* (history) the tracker's current before its last change
    pCompleted         \* (history) complete() was called on the tracker

progressVars == <<pTracker, pCallers, pCalls, pFails, pPrev, pCompleted>>

\* ---- allocateCountsByWeight ----
VARIABLES
    allocSegments,     \* argument segments: sequence of [id, weight]
    allocTotal,        \* argument total
    allocOut,          \* the returned Map (id -> count), or NoAllocation
    allocError,        \* message of the raised Error, or NoError
    allocPc            \* "ready" | "returned" | "raised"

allocVars == <<allocSegments, allocTotal, allocOut, allocError, allocPc>>

\* ---- session ids and file names of one batch ----
VARIABLES
    kPersonaIds,       \* persona.id of every persona of personas.json
    kConcurrency,      \* config.settings.concurrency
    kNow,              \* the clock read by new Date(), in ms
    kTask,             \* per persona: "idle" | "queued" | "running" | "written"
    kStartedAt,        \* per persona: the clock when its run() began
    kSessionId,        \* per persona: sessionId computed by run(), or NoId
    kLogs              \* files of logs/: [name, persona] (persona: whose
                       \*   session the file holds)

keyVars == <<kPersonaIds, kConcurrency, kNow, kTask, kStartedAt, kSessionId, kLogs>>

\* ---- parseLooseAnalysisRow on one model output ----
VARIABLES
    lParts,            \* (history) the pieces the content was written from
    lContent,          \* the content handed to parseLooseAnalysisRow
    lRow,              \* the looseRow returned, or NoRow
    lPc                \* "idle" | "ready" | "parsed" | "accepted" | "nothing"

looseVars == <<lParts, lContent, lRow, lPc>>

\* ---- loadFallbackModels and modelsToTry ----
VARIABLES
    fbPrimary,         \* config.models.analyzer
    fbFile,            \* config/fallback-models.json: [kind, models]
    fbModels,          \* fallback.models returned by loadFallbackModels
    fbSource,          \* fallback.source: "none" | "file" | "default"
    fbTry,             \* modelsToTry of analyzeInterviews
    fbPc               \* "idle" | "ready" | "loaded" | "listed"

fallbackVars == <<fbPrimary, fbFile, fbModels, fbSource, fbTry, fbPc>>

vars == <<clientVars, batchVars, analyzeVars, sessionVars, extractVars, progressVars, allocVars, keyVars, looseVars, fallbackVars>>

nonClientVars == <<batchVars, analyzeVars, sessionVars, extractVars, progressVars, allocVars, keyVars, looseVars, fallbackVars>>

nonBatchVars == <<clientVars, analyzeVars, sessionVars, extractVars, progressVars, allocVars, keyVars, looseVars, fallbackVars>>

nonAnalyzeVars == <<clientVars, batchVars, sessionVars, extractVars, progressVars, allocVars, keyVars, looseVars, fallbackVars>>

nonSessionVars == <<clientVars, batchVars, analyzeVars, extractVars, progressVars, allocVars, keyVars, looseVars, fallbackVars>>

nonExtractVars == <<clientVars, batchVars, analyzeVars, sessionVars, progressVars, allocVars, keyVars, looseVars, fallbackVars>>

nonProgressVars == <<clientVars, batchVars, analyzeVars, sessionVars, extractVars, allocVars, keyVars, looseVars, fallbackVars>>

nonAllocVars == <<clientVars, batchVars, analyzeVars, sessionVars, extractVars, progressVars, keyVars, looseVars, fallbackVars>>

nonKeyVars == <<clientVars, batchVars, analyzeVars, sessionVars, extractVars, progressVars, allocVars, looseVars, fallbackVars>>

nonLooseVars == <<clientVars, batchVars, analyzeVars, sessionVars, extractVars, progressVars, allocVars, keyVars, fallbackVars>>

nonFallbackVars == <<clientVars, batchVars, analyzeVars, sessionVars, extractVars, progressVars, allocVars, keyVars, looseVars>>

\* ------------------------------------------------------------------------
\* Generic helpers
\* ------------------------------------------------------------------------
Max(a, b) == IF a >= b THEN a ELSE b

Min(a, b) == IF a <= b THEN a ELSE b

RECURSIVE SumSeq(_)
SumSeq(s) == IF s = <<>> THEN 0 ELSE Head(s) + SumSeq(Tail(s))

RECURSIVE Pow2(_)
Pow2(n) == IF n = 0 THEN 1 ELSE 2 * Pow2(n - 1)

\* ------------------------------------------------------------------------
\* LlmClient.createChatCompletion
\* ------------------------------------------------------------------------
\* Largest maxRetries the client is constructed with in the model.
MaxRetriesBound == 2

\* options.maxRetries ?? 6
DefaultMaxRetries == 6

\* error.response?.status when there is no response (undefined)
NoStatus == 0
\* Number(undefined header) = NaN: no usable retry-after hint
NoHint == -1
NoResult == "none"
\* activeTracker = null
NoTracker == [active |-> FALSE, total |-> 0, current |-> 0]

\* Values of initialBackoffMs the client is constructed with (ms).
InitialBackoffs == {500, 4000}

\* Values of the retry-after response header (seconds), or absent.
RetryAfterHints == {NoHint, 3}

\* Bodies of a successful response.
ResponseBodies == {"r1", "r2"}

\* A failed call: an axios timeout (no response, hence no status), a response
\* with an HTTP status, or any other error (no status, not a timeout).
Failures ==
    {[ok |-> FALSE, isTimeout |-> TRUE, status |-> NoStatus, retryAfter |-> NoHint]}
    \cup {[ok |-> FALSE, isTimeout |-> FALSE, status |-> s, retryAfter |-> h] :
            s \in {429, 500, 503}, h \in RetryAfterHints}
    \cup {[ok |-> FALSE, isTimeout |-> FALSE, status |-> s, retryAfter |-> NoHint] :
            s \in {400, 502, NoStatus}}

Successes == {[ok |-> TRUE, data |-> d] : d \in ResponseBodies}

\* shouldRetry = isTimeout || status === 429 || status === 500 || status === 503
ShouldRetryAnyStatus(f) == f.isTimeout \/ f.status # NoStatus

ShouldRetry(f) == f.isTimeout \/ f.status = 429 \/ f.status = 500 \/ f.status = 503

\* retryAfterMs = Number.isFinite(retryAfter) ? retryAfter * 1000 : 0
RetryAfterMs(f) == IF f.retryAfter = NoHint THEN 0 ELSE f.retryAfter * 1000

\* A delay that ignores the server's hint.
DelayMsBackoffOnly(b, f) == b

\* delayMs = Math.max(backoff, retryAfterMs)
DelayMs(b, f) == Max(b, RetryAfterMs(f))

\* backoff *= 2
NextBackoffConstant(b) == b

NextBackoff(b) == b * 2

\* A tick that does not stop at total.
TickUncapped(tracker, step) ==
    IF tracker.total <= 0 THEN tracker
    ELSE [tracker EXCEPT !.current = tracker.current + step]

\* ProgressTracker.tick(step): no-op when total <= 0, else saturating add.
Tick(tracker, step) ==
    IF tracker.total <= 0 THEN tracker
    ELSE [tracker EXCEPT !.current = Min(tracker.total, tracker.current + step)]

\* reportProgress(step): activeTracker?.tick(step)
ReportProgress(tracker, step) ==
    IF ~tracker.active THEN tracker ELSE Tick(tracker, step)

\* Trackers registered before the invocation (new ProgressTracker(total)).
Trackers == {NoTracker} \cup {[active |-> TRUE, total |-> Max(0, t), current |-> 0] : t \in {0, 2}}

ClientInit ==
    /\ maxRetries \in (0 .. MaxRetriesBound) \cup {DefaultMaxRetries}
    /\ initialBackoffMs \in InitialBackoffs
    /\ attempt = 0
    /\ backoff = initialBackoffMs
    /\ cpc = "calling"
    /\ netLog = <<>>
    /\ sleepLog = <<>>
    /\ result = NoResult
    /\ activeTracker \in Trackers
    /\ ticks = 0

\* The network-call bound of the model: the default client may retry 6 times.
MaxCalls == MaxRetriesBound + 2

\* try { response = await post(...); reportProgress(1); return response.data }
PostSucceeds ==
    /\ cpc = "calling"
    /\ Len(netLog) < MaxCalls
    /\ \E r \in Successes :
        /\ netLog' = Append(netLog, r)
        /\ result' = r.data
    /\ activeTracker' = ReportProgress(activeTracker, 1)
    /\ ticks' = ticks + 1
    /\ cpc' = "returned"
    /\ UNCHANGED <<maxRetries, initialBackoffMs, attempt, backoff, sleepLog>>
    /\ UNCHANGED nonClientVars

\* catch: if (!shouldRetry || attempt >= this.maxRetries) throw new Error(...)
PostFailsTerminal ==
    /\ cpc = "calling"
    /\ Len(netLog) < MaxCalls
    /\ \E f \in Failures :
        /\ ~ShouldRetry(f) \/ attempt >= maxRetries
        /\ netLog' = Append(netLog, f)
    /\ cpc' = "raised"
    /\ UNCHANGED <<maxRetries, initialBackoffMs, attempt, backoff, sleepLog,
                   result, activeTracker, ticks>>
    /\ UNCHANGED nonClientVars

\* As if progress were reported per attempt: a retried attempt ticks too.
PostFailsRetryTicking ==
    /\ cpc = "calling"
    /\ Len(netLog) < MaxCalls
    /\ \E f \in Failures :
        /\ ~(~ShouldRetry(f) \/ attempt >= maxRetries)
        /\ netLog' = Append(netLog, f)
        /\ sleepLog' = Append(sleepLog, DelayMs(backoff, f))
    /\ backoff' = NextBackoff(backoff)
    /\ attempt' = attempt + 1
    /\ activeTracker' = ReportProgress(activeTracker, 1)
    /\ ticks' = ticks + 1
    /\ UNCHANGED <<maxRetries, initialBackoffMs, cpc, result>>
    /\ UNCHANGED nonClientVars

\* A retry that does not look at the attempts left.
PostFailsRetryUnbounded ==
    /\ cpc = "calling"
    /\ Len(netLog) < MaxCalls
    /\ \E f \in Failures :
        /\ ShouldRetry(f)
        /\ netLog' = Append(netLog, f)
        /\ sleepLog' = Append(sleepLog, DelayMs(backoff, f))
    /\ backoff' = NextBackoff(backoff)
    /\ attempt' = attempt + 1
    /\ UNCHANGED <<maxRetries, initialBackoffMs, cpc, result, activeTracker, ticks>>
    /\ UNCHANGED nonClientVars

\* catch: await sleep(delayMs); backoff *= 2; attempt += 1; (loop)
PostFailsRetry ==
    /\ cpc = "calling"
    /\ Len(netLog) < MaxCalls
    /\ \E f \in Failures :
        /\ ~(~ShouldRetry(f) \/ attempt >= maxRetries)
        /\ netLog' = Append(netLog, f)
        /\ sleepLog' = Append(sleepLog, DelayMs(backoff, f))
    /\ backoff' = NextBackoff(backoff)
    /\ attempt' = attempt + 1
    /\ UNCHANGED <<maxRetries, initialBackoffMs, cpc, result, activeTracker, ticks>>
    /\ UNCHANGED nonClientVars

ClientNext == PostSucceeds \/ PostFailsTerminal \/ PostFailsRetry

ClientIdle ==
    /\ maxRetries = DefaultMaxRetries
    /\ initialBackoffMs = 2000
    /\ attempt = 0
    /\ backoff = 2000
    /\ cpc = "idle"
    /\ netLog = <<>>
    /\ sleepLog = <<>>
    /\ result = NoResult
    /\ activeTracker = NoTracker
    /\ ticks = 0

\* ---- claims about LlmClient ----
IsTransient(o) == ~o.ok /\ (o.isTimeout \/ o.status \in {429, 500, 503})

IsNonTransientFailure(o) ==
    ~o.ok /\ ~o.isTimeout /\ o.status \notin {429, 500, 503}

\* C1: when the first response is a failure that is neither a timeout nor a
\* 429/500/503 status, the invocation has raised after exactly one network
\* call, with zero retries and zero sleeps, whatever maxRetries is.
C1_NonTransientRaisesAtOnce ==
    (Len(netLog) >= 1 /\ IsNonTransientFailure(netLog[1])) =>
        /\ cpc = "raised"
        /\ Len(netLog) = 1
        /\ attempt = 0
        /\ sleepLog = <<>>
        /\ result = NoResult

C1_Witness ==
    /\ Len(netLog) = 1
    /\ IsNonTransientFailure(netLog[1])
    /\ netLog[1].status = 400
    /\ maxRetries = DefaultMaxRetries
    /\ cpc = "raised"

\* C2: if the first k calls fail transiently (k <= maxRetries) and call k+1
\* succeeds, the invocation does not raise, returns that success body after
\* exactly k retries (k+1 calls), and has slept at least initial * (2^k - 1).
AllTransient(log) == \A i \in 1 .. Len(log) : IsTransient(log[i])

C2_TransientAbsorbed ==
    /\ (AllTransient(netLog) /\ Len(netLog) <= maxRetries) => cpc = "calling"
    /\ \A k \in 0 .. maxRetries :
        (/\ Len(netLog) = k + 1
         /\ AllTransient(SubSeq(netLog, 1, k))
         /\ netLog[k + 1].ok) =>
            /\ cpc = "returned"
            /\ result = netLog[k + 1].data
            /\ attempt = k
            /\ Len(sleepLog) = k
            /\ SumSeq(sleepLog) >= initialBackoffMs * (Pow2(k) - 1)

C2_Witness ==
    /\ Len(netLog) = 3
    /\ netLog[1].status = 429
    /\ netLog[2].status = 429
    /\ netLog[3].ok
    /\ cpc = "returned"
    /\ SumSeq(sleepLog) = initialBackoffMs + 2 * initialBackoffMs

\* C17: an invocation that has returned a result has reported progress
\* exactly once, however many failed attempts came before; an invocation that
\* has raised, or is still retrying after failed attempts, has reported none.
C17_OneTickPerReturn ==
    /\ cpc = "returned" => ticks = 1
    /\ cpc \in {"calling", "raised"} => ticks = 0
    /\ (activeTracker.active /\ activeTracker.total > 0) =>
          activeTracker.current = ticks

C17_Witness ==
    /\ cpc = "returned"
    /\ Len(netLog) = 3
    /\ ticks = 1
    /\ activeTracker.active
    /\ activeTracker.current = 1

\* C21: the sleep before retry i (i = 0 for the first retry) is
\* max(initial * 2^i, retry delay of the failed response, 0 without a finite
\* hint); a hint larger than the backoff lengthens that one sleep only: the
\* backoff for the next retry is still initial * 2^(i+1).
C21_BackoffSchedule ==
    /\ Len(sleepLog) = attempt
    /\ backoff = initialBackoffMs * Pow2(attempt)
    /\ \A i \in 0 .. (Len(sleepLog) - 1) :
          sleepLog[i + 1] =
              Max(initialBackoffMs * Pow2(i), RetryAfterMs(netLog[i + 1]))

C21_Witness ==
    /\ initialBackoffMs = 500
    /\ Len(sleepLog) = 2
    /\ netLog[1].retryAfter = 3
    /\ netLog[2].retryAfter = NoHint
    /\ sleepLog = <<3000, 1000>>
    /\ backoff = 2000

Terminated == cpc \in {"returned", "raised"}

\* C22: an invocation issues at most maxRetries + 1 network calls and sleeps
\* at most maxRetries times; when every call fails transiently it raises
\* after exactly maxRetries + 1 calls; and, every call being answered, it
\* terminates (returns or raises).
C22_BoundedCallsAndTermination ==
    /\ [](/\ Len(netLog) <= maxRetries + 1
          /\ Len(sleepLog) <= maxRetries
          /\ (cpc = "raised" /\ AllTransient(netLog)) => Len(netLog) = maxRetries + 1
          /\ (Len(netLog) = maxRetries + 1) => Terminated)
    /\ (maxRetries <= MaxRetriesBound) => <>Terminated

C22_Witness ==
    /\ maxRetries = MaxRetriesBound
    /\ cpc = "raised"
    /\ AllTransient(netLog)
    /\ Len(netLog) = MaxRetriesBound + 1
    /\ Len(sleepLog) = MaxRetriesBound

\* Number of steps of config.interviewFlow.script.
ScriptLen == 2

\* ------------------------------------------------------------------------
\* simulateInterviews: p-limit bounded, resumable batch of InterviewSessions
\* ------------------------------------------------------------------------
\* Number of personas in personas.json.
NumPersonas == 3

\* Largest config.settings.concurrency in the model.
MaxConcurrency == 2

Personas == 1 .. NumPersonas

\* personas.json, in file order (loadPersonas)
personaList == [i \in Personas |-> i]

\* A file of logs/: a session record written by writeSession (readable JSON
\* carrying its personaId), or a file that JSON.parse rejects (for instance
\* one truncated when a writeFile was interrupted). batch = 0: the file was
\* there before this batch; batch = 1: written by this batch.
SessionFile(p, b) == [personaId |-> p, readable |-> TRUE, batch |-> b]

DamagedFile == [personaId |-> 0, readable |-> FALSE, batch |-> 0]

\* loadCompletedPersonaIds: the personaIds of all files, or the empty set as
\* soon as reading or parsing any file throws (one try/catch around the loop).
LoadCompletedPersonaIds(files) ==
    IF \E f \in files : ~f.readable THEN {}
    ELSE {f.personaId : f \in files}

\* personas.filter((persona) => !completedPersonaIds.has(persona.id))
RECURSIVE FilterSeq(_, _)
FilterSeq(seq, keep) ==
    IF seq = <<>> THEN <<>>
    ELSE IF Head(seq) \in keep THEN <<Head(seq)>> \o FilterSeq(Tail(seq), keep)
    ELSE FilterSeq(Tail(seq), keep)

PendingPersonas(done) == FilterSeq(personaList, Personas \ done)

\* p-limit: a queued task is started only while activeCount < concurrency.
CanAdmitOffByOne(active, conc) == active <= conc

CanAdmit(active, conc) == active < conc

\* p-limit, enqueue: how many of the n queued tasks start at once.
RECURSIVE AdmitCount(_, _, _)
AdmitCount(n, active, conc) ==
    IF n > 0 /\ CanAdmit(active, conc)
    THEN 1 + AdmitCount(n - 1, active + 1, conc)
    ELSE 0

\* p-limit, next(): activeCount--, then the head of the queue (if any) starts.
AfterSettle(ts, q, active) ==
    IF q # <<>> /\ CanAdmit(active - 1, concurrency)
    THEN [ts |-> [ts EXCEPT ![Head(q)] = "running"], q |-> Tail(q), active |-> active]
    ELSE [ts |-> ts, q |-> q, active |-> active - 1]

Started(ts) == {p \in Personas : ts[p] \in {"running", "writing", "done", "failed"}}

InFlight(ts) == {p \in Personas : ts[p] \in {"running", "writing"}}

Settled(ts) == \A p \in Personas : ts[p] \in {"skipped", "done"}

BatchInit ==
    /\ concurrency \in 1 .. MaxConcurrency
    /\ \E persisted \in SUBSET Personas, damaged \in SUBSET {DamagedFile} :
        storage = {SessionFile(p, 0) : p \in persisted} \cup damaged
    /\ completedPersonaIds = {}
    /\ tstate = [p \in Personas |-> "new"]
    /\ stepsDone = [p \in Personas |-> 0]
    /\ queue = <<>>
    /\ activeCount = 0
    /\ bpc = "init"
    /\ rejectedWith = 0
    /\ startedAtFailure = {}
    /\ writes = [p \in Personas |-> 0]
    /\ storageAtStart = storage
    /\ invocation = 1
    /\ prevOutcome = "none"
    /\ writtenAfterFailure = {}

\* simulateInterviews up to `await Promise.all(tasks)`: load the completed ids,
\* filter the pending personas, hand each to limit(); p-limit starts the first
\* min(concurrency, pending) of them before any I/O completes.
StartBatch ==
    /\ bpc = "init"
    /\ LET done == LoadCompletedPersonaIds(storage)
           pending == PendingPersonas(done)
           n == AdmitCount(Len(pending), 0, concurrency)
       IN /\ completedPersonaIds' = done
          /\ tstate' = [p \in Personas |->
                          IF p \in done THEN "skipped"
                          ELSE IF \E i \in 1 .. n : pending[i] = p THEN "running"
                          ELSE "queued"]
          /\ queue' = SubSeq(pending, n + 1, Len(pending))
          /\ activeCount' = n
          /\ bpc' = IF pending = <<>> THEN "resolved" ELSE "awaiting"
    /\ UNCHANGED <<concurrency, storage, stepsDone, rejectedWith, startedAtFailure>>
    /\ UNCHANGED <<writes, storageAtStart, invocation, prevOutcome,
                   writtenAfterFailure>>
    /\ UNCHANGED nonBatchVars

\* sessionRunner.run(): one more script stepsDone (interviewer + respondent turn)
\* completes; the task is suspended at its network calls in between.
RunStep(p) ==
    /\ tstate[p] = "running"
    /\ stepsDone[p] < ScriptLen
    /\ stepsDone' = [stepsDone EXCEPT ![p] = @ + 1]
    /\ UNCHANGED <<concurrency, storage, completedPersonaIds, tstate, queue,
                   activeCount, bpc, rejectedWith, startedAtFailure>>
    /\ UNCHANGED <<writes, storageAtStart, invocation, prevOutcome,
                   writtenAfterFailure>>
    /\ UNCHANGED nonBatchVars

\* As if writeSession were called outside limit(): the slot is released when
\* run() returns, before the record is written.
RunReturnsReleasingSlot(p) ==
    /\ tstate[p] = "running"
    /\ stepsDone[p] = ScriptLen
    /\ LET returned == [tstate EXCEPT ![p] = "writing"]
           nxt == AfterSettle(returned, queue, activeCount)
       IN /\ tstate' = nxt.ts
          /\ queue' = nxt.q
          /\ activeCount' = nxt.active
    /\ UNCHANGED <<concurrency, storage, completedPersonaIds, stepsDone, bpc,
                   rejectedWith, startedAtFailure>>
    /\ UNCHANGED <<writes, storageAtStart, invocation, prevOutcome,
                   writtenAfterFailure>>
    /\ UNCHANGED nonBatchVars

\* sessionRunner.run() returns the session; the task awaits writeSession.
RunReturns(p) ==
    /\ tstate[p] = "running"
    /\ stepsDone[p] = ScriptLen
    /\ tstate' = [tstate EXCEPT ![p] = "writing"]
    /\ UNCHANGED <<concurrency, storage, completedPersonaIds, stepsDone, queue,
                   activeCount, bpc, rejectedWith, startedAtFailure>>
    /\ UNCHANGED <<writes, storageAtStart, invocation, prevOutcome,
                   writtenAfterFailure>>
    /\ UNCHANGED nonBatchVars

\* sessionRunner.run() raises (a respondent turn failed): the task rejects,
\* Promise.all rejects with the first such error, p-limit calls next().
RunRaises(p) ==
    /\ tstate[p] = "running"
    /\ stepsDone[p] < ScriptLen
    /\ LET failed == [tstate EXCEPT ![p] = "failed"]
           nxt == AfterSettle(failed, queue, activeCount)
       IN /\ tstate' = nxt.ts
          /\ queue' = nxt.q
          /\ activeCount' = nxt.active
          /\ startedAtFailure' =
                IF bpc = "awaiting" THEN Started(failed) ELSE startedAtFailure
    /\ bpc' = IF bpc = "awaiting" THEN "rejected" ELSE bpc
    /\ rejectedWith' = IF bpc = "awaiting" THEN p ELSE rejectedWith
    /\ UNCHANGED <<concurrency, storage, completedPersonaIds, stepsDone>>
    /\ UNCHANGED <<writes, storageAtStart, invocation, prevOutcome,
                   writtenAfterFailure>>
    /\ UNCHANGED nonBatchVars

\* As if the file were named after the persona: the new record replaces the
\* records the persona already has.
WriteSessionReplacing(p) ==
    /\ tstate[p] = "writing"
    /\ storage' = {f \in storage : f.personaId # p} \cup {SessionFile(p, 1)}
    /\ writes' = [writes EXCEPT ![p] = @ + 1]
    /\ LET written == [tstate EXCEPT ![p] = "done"]
           nxt == AfterSettle(written, queue, activeCount)
       IN /\ tstate' = nxt.ts
          /\ queue' = nxt.q
          /\ activeCount' = nxt.active
          /\ bpc' = IF bpc = "awaiting" /\ Settled(written) THEN "resolved" ELSE bpc
    /\ UNCHANGED <<concurrency, completedPersonaIds, stepsDone, rejectedWith,
                   startedAtFailure>>
    /\ writtenAfterFailure' =
          IF bpc = "rejected" THEN writtenAfterFailure \cup {p} ELSE writtenAfterFailure
    /\ UNCHANGED <<storageAtStart, invocation, prevOutcome>>
    /\ UNCHANGED nonBatchVars

\* As if the rejection of the batch cancelled the tasks still in flight: the
\* record of a session that ends after the failure is not written.
WriteSessionUnlessRejected(p) ==
    /\ tstate[p] = "writing"
    /\ bpc # "rejected"
    /\ storage' = storage \cup {SessionFile(p, 1)}
    /\ writes' = [writes EXCEPT ![p] = @ + 1]
    /\ LET written == [tstate EXCEPT ![p] = "done"]
           nxt == AfterSettle(written, queue, activeCount)
       IN /\ tstate' = nxt.ts
          /\ queue' = nxt.q
          /\ activeCount' = nxt.active
          /\ bpc' = IF bpc = "awaiting" /\ Settled(written) THEN "resolved" ELSE bpc
    /\ UNCHANGED <<concurrency, completedPersonaIds, stepsDone, rejectedWith,
                   startedAtFailure, writtenAfterFailure>>
    /\ UNCHANGED <<storageAtStart, invocation, prevOutcome>>
    /\ UNCHANGED nonBatchVars

\* writeSession completes and the task returns: the record is in storage,
\* p-limit calls next(), Promise.all resolves once every task has fulfilled.
WriteSession(p) ==
    /\ tstate[p] = "writing"
    /\ storage' = storage \cup {SessionFile(p, 1)}
    /\ writes' = [writes EXCEPT ![p] = @ + 1]
    /\ LET written == [tstate EXCEPT ![p] = "done"]
           nxt == AfterSettle(written, queue, activeCount)
       IN /\ tstate' = nxt.ts
          /\ queue' = nxt.q
          /\ activeCount' = nxt.active
          /\ bpc' = IF bpc = "awaiting" /\ Settled(written) THEN "resolved" ELSE bpc
    /\ UNCHANGED <<concurrency, completedPersonaIds, stepsDone, rejectedWith,
                   startedAtFailure>>
    /\ writtenAfterFailure' =
          IF bpc = "rejected" THEN writtenAfterFailure \cup {p} ELSE writtenAfterFailure
    /\ UNCHANGED <<storageAtStart, invocation, prevOutcome>>
    /\ UNCHANGED nonBatchVars

\* Calls of simulateInterviews the model follows.
MaxInvocations == 2

\* The files of logs/ as the next call finds them: all written before it.
AsFoundByNextCall(files) ==
    {IF f.readable THEN SessionFile(f.personaId, 0) ELSE f : f \in files}

\* The process ends (the batch resolved, was rejected, or was killed while it
\* ran) and simulateInterviews is called again on the same output directory.
\* A kill during fs.writeFile leaves no file or a truncated one.
Reinvoke ==
    /\ bpc \in {"awaiting", "resolved", "rejected"}
    /\ invocation < MaxInvocations
    /\ \E truncated \in SUBSET {DamagedFile} :
        /\ truncated # {} => \E p \in Personas : tstate[p] = "writing"
        /\ storage' = AsFoundByNextCall(storage) \cup truncated
        /\ storageAtStart' = AsFoundByNextCall(storage) \cup truncated
    /\ prevOutcome' = IF bpc = "resolved" THEN "resolved"
                      ELSE IF bpc = "rejected" THEN "failed" ELSE "interrupted"
    /\ invocation' = invocation + 1
    /\ completedPersonaIds' = {}
    /\ tstate' = [p \in Personas |-> "new"]
    /\ stepsDone' = [p \in Personas |-> 0]
    /\ queue' = <<>>
    /\ activeCount' = 0
    /\ bpc' = "init"
    /\ rejectedWith' = 0
    /\ startedAtFailure' = {}
    /\ writes' = [p \in Personas |-> 0]
    /\ writtenAfterFailure' = {}
    /\ UNCHANGED concurrency
    /\ UNCHANGED nonBatchVars

BatchNext ==
    \/ StartBatch
    \/ Reinvoke
    \/ \E p \in Personas : RunStep(p)
    \/ \E p \in Personas : RunReturns(p)
    \/ \E p \in Personas : RunRaises(p)
    \/ \E p \in Personas : WriteSession(p)

BatchIdle ==
    /\ concurrency = 1
    /\ storage = {}
    /\ completedPersonaIds = {}
    /\ tstate = [p \in Personas |-> "new"]
    /\ stepsDone = [p \in Personas |-> 0]
    /\ queue = <<>>
    /\ activeCount = 0
    /\ bpc = "idle"
    /\ rejectedWith = 0
    /\ startedAtFailure = {}
    /\ writes = [p \in Personas |-> 0]
    /\ storageAtStart = storage
    /\ invocation = 1
    /\ prevOutcome = "none"
    /\ writtenAfterFailure = {}

\* ---- claims about simulateInterviews ----
HasRecordAtStart(p) == SessionFile(p, 0) \in storage

\* C3: once the batch has started, a persona with a session record in storage
\* at the start of the batch is never run and gets no new record, and every
\* persona without one is scheduled (queued or started).
C3_RunsExactlyUnpersisted ==
    bpc # "init" =>
        \A p \in Personas :
            /\ HasRecordAtStart(p) =>
                  (p \notin Started(tstate) /\ SessionFile(p, 1) \notin storage)
            /\ ~HasRecordAtStart(p) => tstate[p] # "skipped"

\* The same statement restricted to a storage in which every file parses.
C3_RunsExactlyUnpersistedIfReadable ==
    (\A f \in storage : f.readable) => C3_RunsExactlyUnpersisted

\* C4: the sessions that have started and have neither finished (record
\* written) nor failed never number more than settings.concurrency.
C4_ConcurrencyBound ==
    /\ Cardinality(InFlight(tstate)) <= concurrency
    /\ activeCount = Cardinality(InFlight(tstate))

C4_Witness ==
    /\ concurrency = 2
    /\ Cardinality(InFlight(tstate)) = 2
    /\ queue # <<>>
    /\ \E p \in Personas : tstate[p] = "writing"

\* C5: after a SessionRunner has raised and the batch has failed with its
\* error, no persona that was not yet started at that moment is started.
C5_NoStartAfterFailure ==
    bpc = "rejected" =>
        /\ tstate[rejectedWith] = "failed"
        /\ Started(tstate) \subseteq startedAtFailure

\* Personas this batch scheduled, and those p-limit started at once.
Scheduled(ts) == {p \in Personas : ts[p] # "skipped"}

StartedAtOnce(ts) == Min(concurrency, Cardinality(Scheduled(ts)))

\* C13: the record of a completed session is in storage before its slot is
\* released: a finished session whose record is not yet written still holds
\* its slot, and the personas admitted from the queue never outnumber the
\* sessions whose record is in storage plus the sessions that failed.
C13_RecordBeforeSlotRelease ==
    bpc \notin {"idle", "init"} =>
        /\ \A p \in Personas : tstate[p] = "done" => SessionFile(p, 1) \in storage
        /\ Cardinality(Started(tstate)) - StartedAtOnce(tstate)
             <= Cardinality({p \in Personas :
                    \/ tstate[p] = "done" /\ SessionFile(p, 1) \in storage
                    \/ tstate[p] = "failed"})

C13_Witness ==
    /\ concurrency = 1
    /\ \E p, q, r \in Personas :
        /\ tstate[p] = "done"
        /\ SessionFile(p, 1) \in storage
        /\ tstate[q] = "writing"
        /\ SessionFile(q, 1) \notin storage
        /\ tstate[r] = "queued"

HasRecord(p) == \E f \in storage : f.readable /\ f.personaId = p

\* C15: a call after a batch that resolved starts no session, makes no
\* request and leaves storage as it was; a call after a batch that failed or
\* was interrupted runs exactly the personas without a record; and when a
\* later call resolves, every persona has a record.
C15_IdempotentResumption ==
    (invocation > 1 /\ bpc # "init") =>
        /\ prevOutcome = "resolved" =>
            /\ Started(tstate) = {}
            /\ \A p \in Personas : stepsDone[p] = 0
            /\ storage = storageAtStart
        /\ prevOutcome \in {"failed", "interrupted"} =>
            \A p \in Personas :
                /\ HasRecordAtStart(p) => tstate[p] = "skipped"
                /\ ~HasRecordAtStart(p) => tstate[p] # "skipped"
        /\ bpc = "resolved" => \A p \in Personas : HasRecord(p)

\* The same statement restricted to a storage in which every file parses.
C15_IdempotentResumptionIfReadable ==
    (\A f \in storage : f.readable) => C15_IdempotentResumption

\* A step of the task of persona p: its run() advances, returns or raises, or
\* its writeSession completes.
TaskStep(p) == RunStep(p) \/ RunReturns(p) \/ RunRaises(p) \/ WriteSession(p)

\* C30: once a session has raised and the batch has failed, the sessions
\* already started are not cancelled: each one still in flight can take its
\* next step, a step of the batch never moves one back or drops it, each goes
\* on to "done" or "failed" on its own, and one whose run() returns after the
\* failure still gets its record written to storage.
C30_StartedSessionsNotCancelled ==
    /\ [](bpc = "rejected" =>
            /\ \A p \in InFlight(tstate) : ENABLED TaskStep(p)
            /\ \A p \in Personas : tstate[p] = "writing" => ENABLED WriteSession(p)
            /\ \A p \in writtenAfterFailure :
                  tstate[p] = "done" /\ SessionFile(p, 1) \in storage)
    /\ [][(bpc = "rejected" /\ bpc' = "rejected") =>
            \A p \in Personas :
                /\ tstate[p] = "running" =>
                      /\ tstate'[p] \in {"running", "writing", "failed"}
                      /\ stepsDone'[p] >= stepsDone[p]
                /\ tstate[p] = "writing" =>
                      \/ tstate'[p] = "writing"
                      \/ /\ tstate'[p] = "done"
                         /\ SessionFile(p, 1) \in storage'
                         /\ p \in writtenAfterFailure'
                /\ tstate[p] \in {"done", "failed"} => tstate'[p] = tstate[p]]_vars

C30_Witness ==
    /\ bpc = "rejected"
    /\ tstate[rejectedWith] = "failed"
    /\ \E p \in startedAtFailure \cap writtenAfterFailure :
          /\ p # rejectedWith
          /\ tstate[p] = "done"
          /\ SessionFile(p, 1) \in storage
          /\ SessionFile(p, 1) \notin storageAtStart

\* Storage held a file that cannot be read as a session record when the
\* batch was called.
DamagedAtStart == \E f \in storageAtStart : ~f.readable

\* C38: a persona whose session record is in storage and readable when the
\* batch is called is never re-run, whether or not another file of the
\* storage is unreadable or is not valid JSON: no session is started for it
\* and the batch writes no record for it.
C38_ReadableRecordNeverRerun ==
    bpc \notin {"idle", "init"} =>
        \A p \in Personas :
            (\E f \in storageAtStart : f.readable /\ f.personaId = p) =>
                /\ tstate[p] = "skipped"
                /\ stepsDone[p] = 0
                /\ writes[p] = 0

\* The same statement for a storage without a damaged file.
C38_ReadableRecordNeverRerunUndamaged ==
    ~DamagedAtStart => C38_ReadableRecordNeverRerun

\* ------------------------------------------------------------------------
\* Text helpers: a string is a sequence of one-character strings
\* ------------------------------------------------------------------------
IsSpace(c) == c \in {" ", "\n", "\t"}

RECURSIVE TrimStart(_)
TrimStart(s) ==
    IF s # <<>> /\ IsSpace(Head(s)) THEN TrimStart(Tail(s)) ELSE s

RECURSIVE TrimEnd(_)
TrimEnd(s) ==
    IF s # <<>> /\ IsSpace(s[Len(s)]) THEN TrimEnd(SubSeq(s, 1, Len(s) - 1)) ELSE s

\* String.prototype.trim
Trim(s) == TrimEnd(TrimStart(s))

\* s.replace(/\s+/g, " ")
RECURSIVE CollapseSpaces(_)
CollapseSpaces(s) ==
    IF s = <<>> THEN <<>>
    ELSE IF IsSpace(Head(s)) THEN <<" ">> \o CollapseSpaces(TrimStart(s))
    ELSE <<Head(s)>> \o CollapseSpaces(Tail(s))

StartsWith(s, t) == Len(s) >= Len(t) /\ SubSeq(s, 1, Len(t)) = t

\* Positions at which t occurs in s.
Occurrences(s, t) ==
    {i \in 1 .. Len(s) : i + Len(t) - 1 <= Len(s) /\ SubSeq(s, i, i + Len(t) - 1) = t}

\* s.includes(t)
Includes(s, t) == Occurrences(s, t) # {}

SetMin(S) == CHOOSE x \in S : \A y \in S : x <= y

SetMax(S) == CHOOSE x \in S : \A y \in S : x >= y

\* s.split(t).pop(), for s that includes t
AfterLast(s, t) == SubSeq(s, SetMax(Occurrences(s, t)) + Len(t), Len(s))

\* s.split(t)[0], for s that includes t
BeforeFirst(s, t) == SubSeq(s, 1, SetMin(Occurrences(s, t)) - 1)

\* cleaned.match(/"([^"]{3,160})"/)?.[1]: the text between the first pair of
\* consecutive double quotes that encloses 3 to 160 characters, or <<>>.
QuoteMinLen == 3

QuoteMaxLen == 160

QuotedSegment(s) ==
    LET quotes == Occurrences(s, <<"\"">>)
        closes(i) == {j \in quotes : j > i}
        inner(i) == SetMin(closes(i)) - i - 1
        opens == {i \in quotes :
                    /\ closes(i) # {}
                    /\ inner(i) >= QuoteMinLen
                    /\ inner(i) <= QuoteMaxLen}
    IN IF opens = {} THEN <<>>
       ELSE LET i == SetMin(opens) IN SubSeq(s, i + 1, i + inner(i))

\* ------------------------------------------------------------------------
\* analyzeInterviews: the fallback cascade
\* ------------------------------------------------------------------------
\* Number of sessions loaded from logs/.
NumSessions == 2

\* Number of fallback models returned by loadFallbackModels.
NumFallbacks == 1

\* requestAnalysisContent: const maxAttempts = 3
AnalysisMaxAttempts == 3

\* config.analyticsSchema keys, and a key the schema does not configure.
FieldKeys == {"frequency", "pain"}

UnknownKey == "note"

Str(v) == [t |-> "str", v |-> v]

\* A JSON number or boolean, with the text String(value) gives it.
Scalar(v) == [t |-> "scalar", v |-> v]

\* null, an object or an array: rejected by AnalysisValueSchema.
Nested == [t |-> "nested", v |-> <<>>]

EmptyMap == [k \in {} |-> <<>>]

\* What one model output is to the cascade: whether extractMessageText gives
\* "" for it, what parseJsonFromText finds in it (nothing, a non-object value,
\* or an object: a map from its keys to its values), and what the loose
\* per-key pattern captures in it (a map from the matched keys to match[1]).
NoJson == [found |-> FALSE, object |-> FALSE, map |-> EmptyMap]

JsonObject(m) == [found |-> TRUE, object |-> TRUE, map |-> m]

JsonArray == [found |-> TRUE, object |-> FALSE, map |-> EmptyMap]

Content(id, json, loose) == [id |-> id, empty |-> FALSE, json |-> json, loose |-> loose]

CEmpty == [id |-> "empty", empty |-> TRUE, json |-> NoJson, loose |-> EmptyMap]

CProse == Content("prose", NoJson, EmptyMap)

CArray == Content("array", JsonArray, EmptyMap)

CNested ==
    Content("nested", JsonObject([k \in {"pain"} |-> Nested]), EmptyMap)

CEmptyObject == Content("emptyObject", JsonObject(EmptyMap), EmptyMap)

CFull ==
    Content("full",
            JsonObject([k \in FieldKeys |->
                IF k = "frequency" THEN Str(<<"2", "x", ".", " ", "o", "k">>)
                ELSE Str(<<"f", "e", "e", ":", " ", "h", "i">>)]),
            EmptyMap)

CFullPlain ==
    Content("fullPlain",
            JsonObject([k \in FieldKeys |->
                IF k = "frequency" THEN Str(<<"d", "a", "i", "l", "y">>)
                ELSE Str(<<"c", "o", "s", "t">>)]),
            EmptyMap)

CPartial ==
    Content("partial",
            JsonObject([k \in {"pain", UnknownKey} |->
                IF k = "pain" THEN Scalar(<<"7">>) ELSE Str(<<"z", "z">>)]),
            EmptyMap)

\* The object of the prompt's template with every value left empty.
CTemplate ==
    Content("template", JsonObject([k \in FieldKeys |-> Str(<<>>)]), EmptyMap)

\* An object whose only key is not a configured field.
CUnknownOnly ==
    Content("unknownOnly",
            JsonObject([k \in {UnknownKey} |-> Str(<<"z", "z">>)]),
            EmptyMap)

CLoose ==
    Content("loose", NoJson,
            [k \in {"pain"} |-> <<" ", "s", "a", "y", " ", "\"", "a", "b", "c", "\"">>])

CLooseBlank == Content("looseBlank", NoJson, [k \in {"pain"} |-> <<" ">>])

Contents == {CEmpty, CProse, CArray, CNested, CEmptyObject, CFull, CFullPlain,
             CPartial, CLoose, CLooseBlank}

\* normalizeRow: row[metric.key] = parsed[metric.key] ?? ""
NormalizeRowKeepParsedKeys(parsed) ==
    [k \in FieldKeys \cup DOMAIN parsed |->
        IF k \in DOMAIN parsed THEN parsed[k] ELSE <<>>]

NormalizeRow(parsed) ==
    [k \in FieldKeys |-> IF k \in DOMAIN parsed THEN parsed[k] ELSE <<>>]

\* As if parseAnalysisRow also threw when no configured field has a value.
StrictParsesWithValue(c) ==
    /\ c.json.found
    /\ c.json.object
    /\ \A k \in DOMAIN c.json.map : c.json.map[k].t \in {"str", "scalar"}
    /\ \E k \in FieldKeys \cap DOMAIN c.json.map : Len(Trim(c.json.map[k].v)) > 0

\* parseAnalysisRow: throws unless parseJsonFromText finds a value that
\* AnalysisRowSchema accepts (an object of strings, numbers and booleans).
StrictParses(c) ==
    /\ c.json.found
    /\ c.json.object
    /\ \A k \in DOMAIN c.json.map : c.json.map[k].t \in {"str", "scalar"}

\* parseAnalysisRow, when it does not throw: values turned into strings by
\* AnalysisValueSchema, then normalizeRow.
ParseAnalysisRow(c) ==
    NormalizeRow([k \in DOMAIN c.json.map |-> c.json.map[k].v])

\* parseLooseAnalysisRow: row[metric.key] = match ? match[1].trim() : ""
ParseLooseAnalysisRow(c) ==
    [k \in FieldKeys |-> IF k \in DOMAIN c.loose THEN Trim(c.loose[k]) ELSE <<>>]

\* hasAnyValue
HasAnyValue(row) == \E k \in DOMAIN row : Len(Trim(row[k])) > 0

\* buildEmptyRow
BuildEmptyRowPlaceholder == [k \in FieldKeys |-> <<"?">>]

BuildEmptyRow == NormalizeRow(EmptyMap)

\* sanitizeValue. The five prefix patterns and the guillemet pattern need
\* Cyrillic text or guillemets and leave every value of the model as it is.
SanitizeValue(value) ==
    LET c1 == Trim(CollapseSpaces(value))
        c3 == IF Includes(c1, <<"-", ">">>) THEN Trim(AfterLast(c1, <<"-", ">">>))
              ELSE c1
        tail == IF Includes(c3, <<":">>) THEN Trim(AfterLast(c3, <<":">>)) ELSE <<>>
        c4 == IF Includes(c3, <<":">>) /\ Len(tail) > 0 /\ Len(tail) < Len(c3)
              THEN tail ELSE c3
        first == IF Includes(c4, <<".">>) THEN Trim(BeforeFirst(c4, <<".">>)) ELSE <<>>
        c5 == IF Includes(c4, <<".">>) /\ Len(first) > 0 /\ Len(first) < Len(c4)
              THEN first ELSE c4
        quoted == QuotedSegment(c5)
    IN IF quoted # <<>> THEN Trim(quoted) ELSE c5

\* loadSessions: session i of logs/ has personaId i and a segment id.
SessionPersonaId(i) == i

SessionSegmentId(i) == "s1"

\* enrichRow: { personaId, segmentId, ...cleaned }
EnrichRowUnsanitized(row, i) ==
    [k \in {"personaId", "segmentId"} \cup DOMAIN row |->
        IF k \in DOMAIN row THEN row[k]
        ELSE IF k = "personaId" THEN SessionPersonaId(i)
        ELSE SessionSegmentId(i)]

EnrichRow(row, i) ==
    [k \in {"personaId", "segmentId"} \cup DOMAIN row |->
        IF k \in DOMAIN row THEN SanitizeValue(row[k])
        ELSE IF k = "personaId" THEN SessionPersonaId(i)
        ELSE SessionSegmentId(i)]

\* modelsToTry = [config.models.analyzer, ...fallback.models]
NumModels == 1 + NumFallbacks

\* History of one session: per model the number of content and reminder
\* requests answered, the non-empty outputs of the primary model, the kind of
\* output of the last request to the model being tried, and how the session was
\* resolved (technique "none": the empty row was written).
NoContent == CEmpty

NewHist(i) ==
    [session |-> i,
     contentReqs |-> [m \in 1 .. NumModels |-> 0],
     reminderReqs |-> [m \in 1 .. NumModels |-> 0],
     primaryOutputs |-> {},
     resolved |-> FALSE,
     technique |-> "none",
     model |-> 0,
     firstOutput |-> FALSE,
     accepted |-> NoContent,
     last |-> "none"]

HistOf(i) == IF aHist.session = i THEN aHist ELSE NewHist(i)

\* What kind of output c is: empty, a JSON object whose values are all
\* strings, numbers or booleans (a flat mapping), or anything else.
OutputKind(c) ==
    IF c.empty THEN "empty"
    ELSE IF /\ c.json.found
            /\ c.json.object
            /\ \A k \in DOMAIN c.json.map : c.json.map[k].t \in {"str", "scalar"}
         THEN "flat"
         ELSE "other"

\* The history after model m answered a request of the given kind with c.
Answered(h, m, kind, c) ==
    LET h1 == IF kind = "content"
              THEN [h EXCEPT !.contentReqs[m] = @ + 1]
              ELSE [h EXCEPT !.reminderReqs[m] = @ + 1]
    IN IF m = 1 /\ ~c.empty
       THEN [h1 EXCEPT !.primaryOutputs = @ \cup {c.id}, !.last = OutputKind(c)]
       ELSE [h1 EXCEPT !.last = OutputKind(c)]

Resolved(h, m, technique, c) ==
    [h EXCEPT !.resolved = TRUE, !.technique = technique, !.model = m,
              !.firstOutput = (m > 0 /\ h.contentReqs[m] = 1 /\ h.reminderReqs[m] = 0),
              !.accepted = c]

AnalyzeInit ==
    /\ aSession = 1
    /\ aModel = 1
    /\ aPhase = "content"
    /\ aAttempt = 1
    /\ rows = <<>>
    /\ aHist = NewHist(1)

\* rows.push(enrichRow(row, session)); the loop goes on to the next session,
\* whose models are tried from modelsToTry[0] again.
PushRow(row, h) ==
    /\ rows' = Append(rows, EnrichRow(row, aSession))
    /\ aHist' = h
    /\ aSession' = aSession + 1
    /\ aModel' = 1
    /\ aAttempt' = 1
    /\ aPhase' = IF aSession = NumSessions THEN "done" ELSE "content"

\* `continue` of the model loop: the next model, or after the last one
\* rows.push(enrichRow(buildEmptyRow(config), session)).
NextModelOrEmptyRow(h) ==
    IF aModel < NumModels
    THEN /\ aModel' = aModel + 1
         /\ aAttempt' = 1
         /\ aPhase' = "content"
         /\ aHist' = [h EXCEPT !.last = "none"]
         /\ UNCHANGED <<aSession, rows>>
    ELSE PushRow(BuildEmptyRow,
                 Resolved([h EXCEPT !.last = "none"], 0, "none", NoContent))

\* As if an empty response sent the cascade on to the next model at once.
ContentEmptyRetryNextModel ==
    /\ aPhase = "content"
    /\ aAttempt < AnalysisMaxAttempts
    /\ aModel' = IF aModel < NumModels THEN aModel + 1 ELSE aModel
    /\ aAttempt' = IF aModel < NumModels THEN 1 ELSE aAttempt + 1
    /\ aHist' = Answered(HistOf(aSession), aModel, "content", CEmpty)
    /\ UNCHANGED <<aSession, aPhase, rows>>
    /\ UNCHANGED nonAnalyzeVars

\* As if requestAnalysisContent asked again after every empty response.
ContentEmptyRetryUnbounded ==
    /\ aPhase = "content"
    /\ aAttempt' = aAttempt + 1
    /\ aHist' = Answered(HistOf(aSession), aModel, "content", CEmpty)
    /\ UNCHANGED <<aSession, aModel, aPhase, rows>>
    /\ UNCHANGED nonAnalyzeVars

\* requestAnalysisContent: the response has no content and attempts remain.
ContentEmptyRetry ==
    /\ aPhase = "content"
    /\ aAttempt < AnalysisMaxAttempts
    /\ aAttempt' = aAttempt + 1
    /\ aHist' = Answered(HistOf(aSession), aModel, "content", CEmpty)
    /\ UNCHANGED <<aSession, aModel, aPhase, rows>>
    /\ UNCHANGED nonAnalyzeVars

\* requestAnalysisContent returns "" after maxAttempts empty responses:
\* `if (!content) continue`.
ContentEmptyGiveUp ==
    /\ aPhase = "content"
    /\ aAttempt = AnalysisMaxAttempts
    /\ NextModelOrEmptyRow(Answered(HistOf(aSession), aModel, "content", CEmpty))
    /\ UNCHANGED nonAnalyzeVars

\* The content strictly parses: resolvedRow = parseAnalysisRow(content).
ContentStrict ==
    /\ aPhase = "content"
    /\ \E c \in Contents :
        /\ ~c.empty
        /\ StrictParses(c)
        /\ PushRow(ParseAnalysisRow(c),
                   Resolved(Answered(HistOf(aSession), aModel, "content", c),
                            aModel, "strict", c))
    /\ UNCHANGED nonAnalyzeVars

\* catch: the loose row of the same content has a value: resolvedRow = looseRow.
ContentLoose ==
    /\ aPhase = "content"
    /\ \E c \in Contents :
        /\ ~c.empty
        /\ ~StrictParses(c)
        /\ HasAnyValue(ParseLooseAnalysisRow(c))
        /\ PushRow(ParseLooseAnalysisRow(c),
                   Resolved(Answered(HistOf(aSession), aModel, "content", c),
                            aModel, "loose", c))
    /\ UNCHANGED nonAnalyzeVars

\* catch: nothing usable in the content; the reminder request is sent.
ContentUnusable ==
    /\ aPhase = "content"
    /\ \E c \in Contents :
        /\ ~c.empty
        /\ ~StrictParses(c)
        /\ ~HasAnyValue(ParseLooseAnalysisRow(c))
        /\ aHist' = Answered(HistOf(aSession), aModel, "content", c)
    /\ aPhase' = "reminder"
    /\ UNCHANGED <<aSession, aModel, aAttempt, rows>>
    /\ UNCHANGED nonAnalyzeVars

\* The reminder response strictly parses.
ReminderStrict ==
    /\ aPhase = "reminder"
    /\ \E c \in Contents :
        /\ ~c.empty
        /\ StrictParses(c)
        /\ PushRow(ParseAnalysisRow(c),
                   Resolved(Answered(HistOf(aSession), aModel, "reminder", c),
                            aModel, "strict", c))
    /\ UNCHANGED nonAnalyzeVars

\* The reminder response only parses loosely, with a value.
ReminderLoose ==
    /\ aPhase = "reminder"
    /\ \E c \in Contents :
        /\ ~c.empty
        /\ ~StrictParses(c)
        /\ HasAnyValue(ParseLooseAnalysisRow(c))
        /\ PushRow(ParseLooseAnalysisRow(c),
                   Resolved(Answered(HistOf(aSession), aModel, "reminder", c),
                            aModel, "loose", c))
    /\ UNCHANGED nonAnalyzeVars

\* The reminder response is empty (`continue`) or has nothing usable (the
\* loop body ends): the next model, or the empty row.
ReminderUnusable ==
    /\ aPhase = "reminder"
    /\ \E c \in Contents :
        /\ c.empty \/ (~StrictParses(c) /\ ~HasAnyValue(ParseLooseAnalysisRow(c)))
        /\ NextModelOrEmptyRow(Answered(HistOf(aSession), aModel, "reminder", c))
    /\ UNCHANGED nonAnalyzeVars

\* client.createChatCompletion raises (a terminal network error): nothing in
\* analyzeInterviews catches it.
AnalysisRequestRaises ==
    /\ aPhase \in {"content", "reminder"}
    /\ aPhase' = "raised"
    /\ UNCHANGED <<aSession, aModel, aAttempt, rows, aHist>>
    /\ UNCHANGED nonAnalyzeVars

AnalyzeNext ==
    \/ ContentEmptyRetry
    \/ ContentEmptyGiveUp
    \/ ContentStrict
    \/ ContentLoose
    \/ ContentUnusable
    \/ ReminderStrict
    \/ ReminderLoose
    \/ ReminderUnusable
    \/ AnalysisRequestRaises

AnalyzeIdle ==
    /\ aSession = 1
    /\ aModel = 1
    /\ aPhase = "idle"
    /\ aAttempt = 1
    /\ rows = <<>>
    /\ aHist = NewHist(0)

\* ---- claims about analyzeInterviews ----
\* The history is that of a session whose row has been pushed.
LastResolved == aHist.resolved /\ aHist.session = Len(rows)

RowKeys == FieldKeys \cup {"personaId", "segmentId"}

IsText(v) == DOMAIN v = 1 .. Len(v) /\ \A i \in DOMAIN v : v[i] \in STRING

\* Model m was asked and yielded nothing usable: three empty contents, or a
\* non-empty content followed by one reminder request.
ModelExhausted(h, m) ==
    /\ h.contentReqs[m] >= 1
    /\ h.reminderReqs[m] = 1 \/ h.contentReqs[m] = AnalysisMaxAttempts

\* C6: when every model of [primary, ...fallbacks] yielded nothing usable for
\* a session, the row pushed for it has every configured field equal to "".
C6_AllFailGivesEmptyRow ==
    (LastResolved /\ \A m \in 1 .. NumModels : ModelExhausted(aHist, m)
                  /\ aHist.technique = "none") =>
        /\ \A k \in FieldKeys : rows[Len(rows)][k] = <<>>
        /\ aPhase # "raised" => aSession = Len(rows) + 1

C6_Witness ==
    /\ LastResolved
    /\ aHist.technique = "none"
    /\ aHist.primaryOutputs = {"prose", "looseBlank"}
    /\ aHist.contentReqs = [m \in 1 .. NumModels |-> IF m = 1 THEN 1 ELSE 3]
    /\ Len(rows) = 2

\* The primary model only produced unparsable prose and the first fallback
\* model's first output was a JSON object with a string for every field.
FallbackAnsweredInFull ==
    /\ LastResolved
    /\ aHist.primaryOutputs = {"prose"}
    /\ aHist.model = 2
    /\ aHist.firstOutput
    /\ aHist.accepted.json.object
    /\ \A k \in FieldKeys :
        /\ k \in DOMAIN aHist.accepted.json.map
        /\ aHist.accepted.json.map[k].t = "str"

NextSessionStartsAfresh ==
    /\ aSession = aHist.session + 1
    /\ aModel = 1
    /\ aAttempt = 1
    /\ aPhase \in {"content", "done", "raised"}

\* C7 as stated: in that case the row has, for each configured field, exactly
\* the value the fallback model returned, and the next session starts afresh.
C7_FallbackValuesVerbatim ==
    FallbackAnsweredInFull =>
        /\ \A k \in FieldKeys :
            rows[Len(rows)][k] = aHist.accepted.json.map[k].v
        /\ NextSessionStartsAfresh

\* C7 amended: in that case the row has, for each configured field, the
\* value the fallback model returned after sanitizeValue (for "2x. ok" the
\* text before the first full stop, for "fee: hi" the text after the last
\* colon; a value such as "daily" is kept), and the next session starts afresh
\* from the primary model.
C7_FallbackValuesSanitized ==
    FallbackAnsweredInFull =>
        /\ \A k \in FieldKeys :
            rows[Len(rows)][k] = SanitizeValue(aHist.accepted.json.map[k].v)
        /\ aHist.accepted.id = "full" =>
            /\ rows[Len(rows)]["frequency"] = <<"2", "x">>
            /\ rows[Len(rows)]["pain"] = <<"h", "i">>
        /\ aHist.accepted.id = "fullPlain" =>
            \A k \in FieldKeys :
                rows[Len(rows)][k] = aHist.accepted.json.map[k].v
        /\ NextSessionStartsAfresh

C7_Witness ==
    /\ FallbackAnsweredInFull
    /\ aHist.accepted.id = "full"
    /\ aHist.session = 1
    /\ aHist.reminderReqs[1] = 1
    /\ aPhase = "content"

\* C8: every row has exactly the configured keys plus personaId and segmentId,
\* each configured key with a string value; a configured key missing from the
\* accepted object is "", and a key that is not configured never appears.
C8_RowShape ==
    /\ \A i \in 1 .. Len(rows) :
        /\ DOMAIN rows[i] = RowKeys
        /\ \A k \in FieldKeys : IsText(rows[i][k])
        /\ rows[i]["personaId"] = SessionPersonaId(i)
    /\ (LastResolved /\ aHist.technique = "strict") =>
        \A k \in FieldKeys \ DOMAIN aHist.accepted.json.map :
            rows[Len(rows)][k] = <<>>

C8_Witness ==
    /\ LastResolved
    /\ aHist.accepted.id = "partial"
    /\ UnknownKey \in DOMAIN aHist.accepted.json.map
    /\ rows[Len(rows)]["frequency"] = <<>>
    /\ rows[Len(rows)]["pain"] = <<"7">>

\* C16: exactly one record per loaded session, in session order, whatever
\* the outcomes of the requests, a request that ends in a terminal error
\* included: the run is never aborted, and when it ends there is a record for
\* every session.
C16_OneRecordPerSession ==
    /\ aPhase # "raised"
    /\ aPhase \in {"content", "reminder"} => Len(rows) = aSession - 1
    /\ aPhase = "done" => Len(rows) = NumSessions
    /\ \A i \in 1 .. Len(rows) : rows[i]["personaId"] = SessionPersonaId(i)

\* The same statement without its first line: as long as no request has
\* raised, the records are one per session analysed so far, in order.
C16_OneRecordPerSessionUnlessRaised ==
    /\ aPhase \in {"content", "reminder"} => Len(rows) = aSession - 1
    /\ aPhase = "done" => Len(rows) = NumSessions
    /\ \A i \in 1 .. Len(rows) : rows[i]["personaId"] = SessionPersonaId(i)

ModelRequests(h, m) == h.contentReqs[m] + h.reminderReqs[m]

\* C32: for each session the models are requested in the order of
\* modelsToTry: a model has been requested only if every model before it was
\* requested and yielded nothing usable (three empty contents, or a content
\* and a reminder response that gave no record), and once a model has yielded
\* the accepted record no later model has been requested for that session.
C32_ModelsInOrder ==
    /\ \A m \in 1 .. NumModels :
          ModelRequests(aHist, m) > 0 =>
              /\ aHist.contentReqs[m] > 0
              /\ \A e \in 1 .. (m - 1) :
                    ModelExhausted(aHist, e) /\ aHist.model # e
    /\ (aHist.resolved /\ aHist.model > 0) =>
          /\ ModelRequests(aHist, aHist.model) > 0
          /\ \A m \in (aHist.model + 1) .. NumModels : ModelRequests(aHist, m) = 0
    /\ aPhase \in {"content", "reminder"} =>
          \A m \in (aModel + 1) .. NumModels : ModelRequests(HistOf(aSession), m) = 0

C32_Witness ==
    /\ LastResolved
    /\ aHist.session = NumSessions
    /\ aHist.model = NumModels
    /\ \A e \in 1 .. (NumModels - 1) : ModelExhausted(aHist, e)
    /\ aHist.contentReqs[1] = AnalysisMaxAttempts
    /\ rows[1]["pain"] # <<>>

\* C33: within one model, a first output that fails the strict parse is
\* followed by exactly one reminder request, and the loose parse is used only
\* after the reminder output has failed the strict parse too: a record
\* accepted from a loose parse was preceded by the reminder request to that
\* model, and no model gets more than one reminder request.
C33_ReminderBeforeLoose ==
    /\ \A m \in 1 .. NumModels : aHist.reminderReqs[m] <= 1
    /\ (aHist.resolved /\ aHist.technique = "loose") =>
          aHist.reminderReqs[aHist.model] = 1

\* The part of the statement about the reminder alone: at most one reminder
\* request per model, sent only after a non-empty content.
C33_OneReminderAfterContent ==
    \A m \in 1 .. NumModels :
        /\ aHist.reminderReqs[m] <= 1
        /\ aHist.reminderReqs[m] = 1 => aHist.contentReqs[m] >= 1

\* Completion requests of the session of history h, over all models.
RECURSIVE RequestsUpTo(_, _)
RequestsUpTo(h, m) ==
    IF m = 0 THEN 0 ELSE ModelRequests(h, m) + RequestsUpTo(h, m - 1)

SessionRequests(h) == RequestsUpTo(h, NumModels)

\* The most requests one model can get: maxAttempts contents and a reminder.
RequestsPerModel == AnalysisMaxAttempts + 1

AnalysisRunning == aPhase \in {"content", "reminder"}

\* An upper bound of the requests analyzeInterviews can still issue.
AnalysisRequestsLeft ==
    IF ~AnalysisRunning THEN 0
    ELSE (NumSessions - aSession) * RequestsPerModel * NumModels
         + (NumModels - aModel) * RequestsPerModel
         + (IF aPhase = "content" THEN AnalysisMaxAttempts - aAttempt + 2 ELSE 1)

\* The completion call of the cascade returns, with whatever content.
AnalysisCallReturns ==
    \/ ContentEmptyRetry
    \/ ContentEmptyGiveUp
    \/ ContentStrict
    \/ ContentLoose
    \/ ContentUnusable
    \/ ReminderStrict
    \/ ReminderLoose
    \/ ReminderUnusable

\* One answered request of the cascade: it goes to the current model of the
\* current session; a content request that is not the model's first follows
\* an empty response, a reminder request follows a non-empty content.
AnsweredRequestInOrder ==
    LET h == HistOf(aSession)
        g == aHist'
        m == aModel
    IN /\ g.session = aSession
       /\ ModelRequests(g, m) = ModelRequests(h, m) + 1
       /\ \A e \in (1 .. NumModels) \ {m} :
             /\ g.contentReqs[e] = h.contentReqs[e]
             /\ g.reminderReqs[e] = h.reminderReqs[e]
       /\ g.contentReqs[m] > h.contentReqs[m] =>
             /\ h.reminderReqs[m] = 0
             /\ h.contentReqs[m] > 0 => h.last = "empty"
       /\ g.reminderReqs[m] > h.reminderReqs[m] =>
             /\ h.contentReqs[m] > 0
             /\ h.last # "empty"

\* C39: for one session each model gets at most 3 content requests, a
\* further one only after an empty response, and at most 1 reminder request,
\* which follows a non-empty content and so is never sent after three empty
\* contents; a session issues at most 4 * (1 + fallback models) requests;
\* and the cascade ends when every call returns: while it runs a returning
\* call has a step to take, and every step lowers the requests left.
C39_RequestBound ==
    /\ [](/\ \A m \in 1 .. NumModels :
                /\ aHist.contentReqs[m] <= AnalysisMaxAttempts
                /\ aHist.reminderReqs[m] <= 1
          /\ SessionRequests(aHist) <= 4 * NumModels
          /\ AnalysisRequestsLeft >= 0
          /\ AnalysisRunning => ENABLED AnalysisCallReturns)
    /\ [][/\ AnalysisRequestsLeft' < AnalysisRequestsLeft
          /\ (AnalysisRunning /\ aPhase' # "raised") => AnsweredRequestInOrder]_vars

\* Every model of the last session got three contents and a reminder.
C39_Witness ==
    /\ LastResolved
    /\ aHist.session = NumSessions
    /\ aHist.technique = "none"
    /\ \A m \in 1 .. NumModels :
          aHist.contentReqs[m] = AnalysisMaxAttempts /\ aHist.reminderReqs[m] = 1
    /\ SessionRequests(aHist) = 4 * NumModels

\* Outputs that are a flat JSON object without a value for any configured
\* field: the empty object, the unfilled template, only unknown keys.
ValuelessMappings == {CEmptyObject, CTemplate, CUnknownOnly}

\* parseAnalysisRow takes each of them and gives the all-empty row.
ValuelessMappingsParse ==
    \A c \in ValuelessMappings :
        /\ OutputKind(c) = "flat"
        /\ StrictParses(c)
        /\ ParseAnalysisRow(c) = BuildEmptyRow
        /\ ~HasAnyValue(ParseAnalysisRow(c))

\* The step taken is a content request answered with a flat mapping.
FlatMappingAnswered ==
    /\ aPhase = "content"
    /\ aPhase' # "raised"
    /\ aHist'.last = "flat"

\* C40: a content that strictly parses to a flat mapping is accepted as the
\* model's success whether or not a configured field has a value in it: the
\* cascade of that session stops with technique "strict" at the model that
\* answered, no reminder is sent to it and no later model is requested; and
\* when the mapping has no value for any configured field (the empty object,
\* the unfilled template, only unknown keys) the record pushed is all-empty.
C40_ValuelessMappingAccepted ==
    [][FlatMappingAnswered =>
          /\ ValuelessMappingsParse
          /\ aHist'.session = aSession
          /\ aHist'.resolved
          /\ aHist'.technique = "strict"
          /\ aHist'.model = aModel
          /\ aHist'.reminderReqs[aModel] = 0
          /\ \A m \in (aModel + 1) .. NumModels : ModelRequests(aHist', m) = 0
          /\ rows' = Append(rows, EnrichRow(ParseAnalysisRow(aHist'.accepted), aSession))
          /\ aHist'.accepted \in ValuelessMappings =>
                rows' = Append(rows, EnrichRow(BuildEmptyRow, aSession))
          /\ aSession' = aSession + 1
          /\ aModel' = 1]_vars

\* The primary model's first output was the empty object and the session
\* got the all-empty record from it.
C40_Witness ==
    /\ LastResolved
    /\ aHist.technique = "strict"
    /\ aHist.model = 1
    /\ aHist.firstOutput
    /\ aHist.accepted = CEmptyObject
    /\ SessionRequests(aHist) = 1
    /\ \A k \in FieldKeys : rows[Len(rows)][k] = <<>>

\* ------------------------------------------------------------------------
\* InterviewSession.run: the interview state machine
\* ------------------------------------------------------------------------
\* requestContent: params.maxAttempts ?? 3 (the interviewer's budget)
InterviewerMaxAttempts == 3

\* run(): maxAttempts: 5 (the respondent's budget)
RespondentMaxAttempts == 5

\* requestContent: setTimeout(resolve, 1000 * attempt)
RetryDelayUnitMs == 1000

\* A delay that doubles with every attempt.
RetryDelayExponential(k) == RetryDelayUnitMs * Pow2(k - 1)

RetryDelay(k) == RetryDelayUnitMs * k

\* The literal script line of step i.
ScriptLine(i) == <<"q", i>>

\* Formatting artifacts removed by sanitizeContent, each taken as one token:
\* /<\/?s>|\[\/?OUT]|\[\/?B_INST]/gi
Artifacts == {"<s>", "</s>", "[OUT]", "[/OUT]", "[B_INST]", "[/B_INST]"}

RECURSIVE StripArtifacts(_)
StripArtifacts(s) ==
    IF s = <<>> THEN <<>>
    ELSE IF Head(s) \in Artifacts THEN StripArtifacts(Tail(s))
    ELSE <<Head(s)>> \o StripArtifacts(Tail(s))

\* A sanitizer that only trims.
SanitizeContentTrimOnly(content) == Trim(content)

\* sanitizeContent
SanitizeContent(content) == Trim(StripArtifacts(content))

\* extractMessageText: the trimmed content, else the trimmed reasoning, else ""
ExtractMessageText(message) ==
    IF Trim(message.content) # <<>> THEN Trim(message.content)
    ELSE Trim(message.reasoning)

\* requestContent: cleaned = content ? this.sanitizeContent(content) : ""
CleanedContent(message) ==
    IF ExtractMessageText(message) # <<>>
    THEN SanitizeContent(ExtractMessageText(message))
    ELSE <<>>

\* response.choices[0]?.message of the completions the backend returns.
Message(content, reasoning) == [content |-> content, reasoning |-> reasoning]

ModelMessages ==
    {Message(<<>>, <<>>),
     Message(<<" ">>, <<" ">>),
     Message(<<"<s>", " ", "[/OUT]">>, <<>>),
     Message(<<"<s>", "o", "k", "</s>", " ">>, <<"n", "o">>),
     Message(<<>>, <<"h", "m">>)}

\* requestContent: if (cleaned) return cleaned; else the attempt is used up.
TextOutputs == {m \in ModelMessages : CleanedContent(m) # <<>>}

EmptyOutputs == {m \in ModelMessages : CleanedContent(m) = <<>>}

Turn(role, content, i) == [role |-> role, content |-> content, step |-> i]

\* No session: run() has not resolved.
NoSession == [returned |-> FALSE, messages |-> <<>>]

\* The IInterviewSession run() resolves with (its transcript).
Session(msgs) == [returned |-> TRUE, messages |-> msgs]

NoResponse == Message(<<"-">>, <<"-">>)

\* The completion request raised: there is no message.
RaisedResponse == Message(<<"!">>, <<"!">>)

\* requestContent: throw new Error(`${params.label} response missing.`)
MissingError(label) ==
    IF label = "interviewer" THEN "interviewer response missing."
    ELSE "respondent response missing."

\* createChatCompletion: throw new Error(`LLM request failed...`)
ClientError == "LLM request failed"

\* buildRespondentSystem / buildInterviewerSystem
SystemPrompt(label) == <<"system-prompt", label>>

\* run: `Следующий вопрос из скрипта: ${step}`
Instruction(i) == <<"next-question">> \o ScriptLine(i)

\* params.retryPrompt
RetryPrompt(label) == <<"retry-prompt", label>>

\* params.messages built by run() for the request of the given role.
ParamsMessages(label) ==
    IF label = "interviewer"
    THEN <<Turn("system", SystemPrompt(label), sStep)>> \o messages
            \o <<Turn("user", Instruction(sStep), sStep)>>
    ELSE <<Turn("system", SystemPrompt(label), sStep)>> \o messages

\* requestContent: the messages of the request made when `attempt` is k:
\* params.messages, and from the second attempt on a copy of them with the
\* retry prompt appended.
RequestMessages(label, k) ==
    IF k = 0 THEN ParamsMessages(label)
    ELSE Append(ParamsMessages(label), Turn("user", RetryPrompt(label), sStep))

SessionInit ==
    /\ sMode \in {"script", "llm"}
    /\ sStep = 1
    /\ sPhase = "interviewer"
    /\ sAttempt = 0
    /\ messages = <<>>
    /\ sRequests = [interviewer |-> 0, respondent |-> 0]
    /\ sWaits = <<>>
    /\ sReturned = NoSession
    /\ sError = ""
    /\ sResponse = NoResponse
    /\ sEmptyAnswers = 0
    /\ sSent = <<>>

\* As if the script mode asked the interviewer model first.
InterviewerScriptedAsking ==
    /\ sPhase = "interviewer"
    /\ sMode = "script"
    /\ messages' = Append(messages, Turn("user", ScriptLine(sStep), sStep))
    /\ sRequests' = [sRequests EXCEPT !.interviewer = @ + 1]
    /\ sPhase' = "respondent"
    /\ sAttempt' = 0
    /\ UNCHANGED <<sMode, sStep, sWaits, sReturned, sError, sResponse>>
    /\ UNCHANGED sEmptyAnswers
    /\ sSent' = RequestMessages("interviewer", sAttempt)
    /\ UNCHANGED nonSessionVars

\* Script mode: interviewerContent = step; messages.push(user turn); the
\* respondent request follows.
InterviewerScripted ==
    /\ sPhase = "interviewer"
    /\ sMode = "script"
    /\ messages' = Append(messages, Turn("user", ScriptLine(sStep), sStep))
    /\ sPhase' = "respondent"
    /\ sAttempt' = 0
    /\ UNCHANGED <<sMode, sStep, sRequests, sWaits, sReturned, sError, sResponse>>
    /\ UNCHANGED sEmptyAnswers
    /\ UNCHANGED sSent
    /\ UNCHANGED nonSessionVars

\* llm mode: the interviewer request returns text that is non-empty after
\* sanitizeContent; it becomes the user turn.
InterviewerAccepts ==
    /\ sPhase = "interviewer"
    /\ sMode = "llm"
    /\ \E m \in TextOutputs :
        /\ messages' = Append(messages, Turn("user", CleanedContent(m), sStep))
        /\ sResponse' = m
    /\ sRequests' = [sRequests EXCEPT !.interviewer = @ + 1]
    /\ sPhase' = "respondent"
    /\ sAttempt' = 0
    /\ sWaits' = <<>>
    /\ UNCHANGED <<sMode, sStep, sReturned, sError>>
    /\ UNCHANGED sEmptyAnswers
    /\ sSent' = RequestMessages("interviewer", sAttempt)
    /\ UNCHANGED nonSessionVars

\* llm mode: the response is empty and attempts remain: wait 1000 * attempt.
InterviewerEmptyRetry ==
    /\ sPhase = "interviewer"
    /\ sMode = "llm"
    /\ sAttempt + 1 < InterviewerMaxAttempts
    /\ \E m \in EmptyOutputs :
        /\ sResponse' = m
    /\ sRequests' = [sRequests EXCEPT !.interviewer = @ + 1]
    /\ sAttempt' = sAttempt + 1
    /\ sWaits' = Append(sWaits, RetryDelay(sAttempt + 1))
    /\ UNCHANGED <<sMode, sStep, sPhase, messages, sReturned, sError>>
    /\ UNCHANGED sEmptyAnswers
    /\ sSent' = RequestMessages("interviewer", sAttempt)
    /\ UNCHANGED nonSessionVars

\* run(), catch of the interviewer request: interviewerContent = step, which
\* messages.push then appends as the user turn.
WithFallbackTurnSkipped(msgs, i) == msgs

WithFallbackTurn(msgs, i) == Append(msgs, Turn("user", ScriptLine(i), i))

\* As if run() did not catch the interviewer's error.
InterviewerExhaustedUncaught ==
    /\ sPhase = "interviewer"
    /\ sMode = "llm"
    /\ sAttempt + 1 = InterviewerMaxAttempts
    /\ \E m \in EmptyOutputs :
        /\ sResponse' = m
    /\ sRequests' = [sRequests EXCEPT !.interviewer = @ + 1]
    /\ sAttempt' = sAttempt + 1
    /\ sPhase' = "failed"
    /\ sError' = MissingError("interviewer")
    /\ UNCHANGED <<sMode, sStep, messages, sWaits, sReturned>>
    /\ UNCHANGED sEmptyAnswers
    /\ sSent' = RequestMessages("interviewer", sAttempt)
    /\ UNCHANGED nonSessionVars

\* llm mode: the last attempt is empty too: requestContent throws
\* "interviewer response missing.", caught in run().
InterviewerExhausted ==
    /\ sPhase = "interviewer"
    /\ sMode = "llm"
    /\ sAttempt + 1 = InterviewerMaxAttempts
    /\ \E m \in EmptyOutputs :
        /\ sResponse' = m
    /\ sRequests' = [sRequests EXCEPT !.interviewer = @ + 1]
    /\ messages' = WithFallbackTurn(messages, sStep)
    /\ sPhase' = "respondent"
    /\ sAttempt' = 0
    /\ sWaits' = <<>>
    /\ UNCHANGED <<sMode, sStep, sReturned, sError>>
    /\ UNCHANGED sEmptyAnswers
    /\ sSent' = RequestMessages("interviewer", sAttempt)
    /\ UNCHANGED nonSessionVars

\* llm mode: the client raises during an interviewer request, caught in run().
InterviewerRaises ==
    /\ sPhase = "interviewer"
    /\ sMode = "llm"
    /\ sRequests' = [sRequests EXCEPT !.interviewer = @ + 1]
    /\ messages' = WithFallbackTurn(messages, sStep)
    /\ sPhase' = "respondent"
    /\ sAttempt' = 0
    /\ sWaits' = <<>>
    /\ sResponse' = RaisedResponse
    /\ UNCHANGED <<sMode, sStep, sReturned, sError>>
    /\ UNCHANGED sEmptyAnswers
    /\ sSent' = RequestMessages("interviewer", sAttempt)
    /\ UNCHANGED nonSessionVars

\* The respondent request returns text that is non-empty after
\* sanitizeContent: the assistant turn; then the next step, or run() returns
\* the session.
RespondentAccepts ==
    /\ sPhase = "respondent"
    /\ \E m \in TextOutputs :
        /\ messages' = Append(messages, Turn("assistant", CleanedContent(m), sStep))
        /\ sResponse' = m
    /\ sRequests' = [sRequests EXCEPT !.respondent = @ + 1]
    /\ sStep' = sStep + 1
    /\ sPhase' = IF sStep = ScriptLen THEN "done" ELSE "interviewer"
    /\ sReturned' = IF sStep = ScriptLen THEN Session(messages') ELSE NoSession
    /\ sAttempt' = 0
    /\ sWaits' = <<>>
    /\ UNCHANGED <<sMode, sError>>
    /\ UNCHANGED sEmptyAnswers
    /\ sSent' = RequestMessages("respondent", sAttempt)
    /\ UNCHANGED nonSessionVars

\* As if the retry prompt were pushed onto the messages of the session.
RespondentEmptyRetryKeepingPrompt ==
    /\ sPhase = "respondent"
    /\ sAttempt + 1 < RespondentMaxAttempts
    /\ \E m \in EmptyOutputs :
        /\ sResponse' = m
    /\ sRequests' = [sRequests EXCEPT !.respondent = @ + 1]
    /\ sAttempt' = sAttempt + 1
    /\ sWaits' = Append(sWaits, RetryDelay(sAttempt + 1))
    /\ messages' = Append(messages, Turn("user", RetryPrompt("respondent"), sStep))
    /\ UNCHANGED <<sMode, sStep, sPhase, sReturned, sError>>
    /\ sEmptyAnswers' = sEmptyAnswers + 1
    /\ sSent' = RequestMessages("respondent", sAttempt)
    /\ UNCHANGED nonSessionVars

\* A retry that does not look at the attempts left.
RespondentEmptyRetryUnbounded ==
    /\ sPhase = "respondent"
    /\ \E m \in EmptyOutputs :
        /\ sResponse' = m
    /\ sRequests' = [sRequests EXCEPT !.respondent = @ + 1]
    /\ sAttempt' = sAttempt + 1
    /\ sWaits' = Append(sWaits, RetryDelay(sAttempt + 1))
    /\ UNCHANGED <<sMode, sStep, sPhase, messages, sReturned, sError>>
    /\ sEmptyAnswers' = sEmptyAnswers + 1
    /\ sSent' = RequestMessages("respondent", sAttempt)
    /\ UNCHANGED nonSessionVars

\* The respondent response is empty and attempts remain: wait 1000 * attempt.
RespondentEmptyRetry ==
    /\ sPhase = "respondent"
    /\ sAttempt + 1 < RespondentMaxAttempts
    /\ \E m \in EmptyOutputs :
        /\ sResponse' = m
    /\ sRequests' = [sRequests EXCEPT !.respondent = @ + 1]
    /\ sAttempt' = sAttempt + 1
    /\ sWaits' = Append(sWaits, RetryDelay(sAttempt + 1))
    /\ UNCHANGED <<sMode, sStep, sPhase, messages, sReturned, sError>>
    /\ sEmptyAnswers' = sEmptyAnswers + 1
    /\ sSent' = RequestMessages("respondent", sAttempt)
    /\ UNCHANGED nonSessionVars

\* As if the respondent had the interviewer's budget.
RespondentExhaustedEarly ==
    /\ sPhase = "respondent"
    /\ sAttempt + 1 = InterviewerMaxAttempts
    /\ \E m \in EmptyOutputs :
        /\ sResponse' = m
    /\ sRequests' = [sRequests EXCEPT !.respondent = @ + 1]
    /\ sAttempt' = sAttempt + 1
    /\ sPhase' = "failed"
    /\ sError' = MissingError("respondent")
    /\ UNCHANGED <<sMode, sStep, messages, sWaits, sReturned>>
    /\ sEmptyAnswers' = sEmptyAnswers + 1
    /\ sSent' = RequestMessages("respondent", sAttempt)
    /\ UNCHANGED nonSessionVars

\* The respondent's last attempt is empty: requestContent throws
\* "respondent response missing." and run() rejects: its messages are dropped.
RespondentExhausted ==
    /\ sPhase = "respondent"
    /\ sAttempt + 1 = RespondentMaxAttempts
    /\ \E m \in EmptyOutputs :
        /\ sResponse' = m
    /\ sRequests' = [sRequests EXCEPT !.respondent = @ + 1]
    /\ sAttempt' = sAttempt + 1
    /\ sPhase' = "failed"
    /\ sError' = MissingError("respondent")
    /\ UNCHANGED <<sMode, sStep, messages, sWaits, sReturned>>
    /\ sEmptyAnswers' = sEmptyAnswers + 1
    /\ sSent' = RequestMessages("respondent", sAttempt)
    /\ UNCHANGED nonSessionVars

\* As if requestContent caught the client's error and counted the call as
\* one more empty attempt.
RespondentRaisesCountedAsEmpty ==
    /\ sPhase = "respondent"
    /\ sRequests' = [sRequests EXCEPT !.respondent = @ + 1]
    /\ sResponse' = RaisedResponse
    /\ sAttempt' = sAttempt + 1
    /\ sPhase' = IF sAttempt + 1 < RespondentMaxAttempts THEN "respondent" ELSE "failed"
    /\ sError' = IF sAttempt + 1 < RespondentMaxAttempts THEN "" ELSE ClientError
    /\ UNCHANGED <<sMode, sStep, messages, sWaits, sReturned>>
    /\ UNCHANGED sEmptyAnswers
    /\ sSent' = RequestMessages("respondent", sAttempt)
    /\ UNCHANGED nonSessionVars

\* The client raises during a respondent request: run() rejects at once.
RespondentRaises ==
    /\ sPhase = "respondent"
    /\ sRequests' = [sRequests EXCEPT !.respondent = @ + 1]
    /\ sPhase' = "failed"
    /\ sError' = ClientError
    /\ sResponse' = RaisedResponse
    /\ UNCHANGED <<sMode, sStep, sAttempt, messages, sWaits, sReturned>>
    /\ UNCHANGED sEmptyAnswers
    /\ sSent' = RequestMessages("respondent", sAttempt)
    /\ UNCHANGED nonSessionVars

SessionNext ==
    \/ InterviewerScripted
    \/ InterviewerAccepts
    \/ InterviewerEmptyRetry
    \/ InterviewerExhausted
    \/ InterviewerRaises
    \/ RespondentAccepts
    \/ RespondentEmptyRetry
    \/ RespondentExhausted
    \/ RespondentRaises

SessionIdle ==
    /\ sMode = "script"
    /\ sStep = 1
    /\ sPhase = "idle"
    /\ sAttempt = 0
    /\ messages = <<>>
    /\ sRequests = [interviewer |-> 0, respondent |-> 0]
    /\ sWaits = <<>>
    /\ sReturned = NoSession
    /\ sError = ""
    /\ sResponse = NoResponse
    /\ sEmptyAnswers = 0
    /\ sSent = <<>>

\* ---- claims about InterviewSession ----
\* C9: a returned session has exactly 2 * N turns for an N-step script, in
\* both interviewer modes: the turns of step i are turn 2i-1 with role user
\* and turn 2i with role assistant; while running, the transcript holds two
\* turns per completed step, plus the user turn of the current step once the
\* respondent is being asked.
C9_TwoTurnsPerStep ==
    /\ sPhase = "done" =>
        /\ Len(messages) = 2 * ScriptLen
        /\ \A i \in 1 .. ScriptLen :
            /\ messages[2 * i - 1].role = "user"
            /\ messages[2 * i - 1].step = i
            /\ messages[2 * i].role = "assistant"
            /\ messages[2 * i].step = i
    /\ sPhase = "interviewer" => Len(messages) = 2 * (sStep - 1)
    /\ sPhase = "respondent" => Len(messages) = 2 * (sStep - 1) + 1

C9_Witness ==
    /\ sPhase = "done"
    /\ sMode = "llm"
    /\ sRequests.interviewer > ScriptLen
    /\ sRequests.respondent > ScriptLen
    /\ messages[1].content = ScriptLine(1)
    /\ messages[3].content # ScriptLine(2)

TurnsOfRole(msgs, role) == {i \in 1 .. Len(msgs) : msgs[i].role = role}

TotalRequests == sRequests.interviewer + sRequests.respondent

\* C24: in script mode no completion request is issued for an interviewer
\* turn: every user turn is the literal script line of its step, and the
\* requests of the session are exactly its respondent attempts (one per
\* accepted answer, one per empty answer, one for a request that raised): N
\* requests for N steps when every answer is accepted at the first attempt.
C24_ScriptModeAsksRespondentOnly ==
    sMode = "script" /\ sPhase # "idle" =>
        /\ sRequests.interviewer = 0
        /\ \A i \in TurnsOfRole(messages, "user") :
              messages[i].content = ScriptLine(messages[i].step)
        /\ TotalRequests =
              Cardinality(TurnsOfRole(messages, "assistant")) + sEmptyAnswers
                  + (IF sError = ClientError THEN 1 ELSE 0)
        /\ (sPhase = "done" /\ sEmptyAnswers = 0) => TotalRequests = ScriptLen

C24_Witness ==
    /\ sMode = "script"
    /\ sPhase = "done"
    /\ sEmptyAnswers = 0
    /\ TotalRequests = ScriptLen
    /\ sReturned.returned
    /\ \A i \in 1 .. ScriptLen : sReturned.messages[2 * i - 1].content = ScriptLine(i)

\* The step taken received an interviewer response that is empty once
\* sanitized; the step taken saw the interviewer request raise.
InterviewerGotEmpty ==
    /\ sPhase = "interviewer"
    /\ sRequests'.interviewer = sRequests.interviewer + 1
    /\ sResponse' \in EmptyOutputs

InterviewerGotError ==
    /\ sPhase = "interviewer"
    /\ sRequests'.interviewer = sRequests.interviewer + 1
    /\ sResponse' = RaisedResponse

FallsBackToScript ==
    /\ sPhase' = "respondent"
    /\ sStep' = sStep
    /\ sAttempt' = 0
    /\ messages' = Append(messages, Turn("user", ScriptLine(sStep), sStep))

\* C25: in llm mode an interviewer turn never aborts the session: a step
\* taken from the interviewer phase leaves no error and stays in the same
\* script step; when the third attempt in a row is empty, or when the request
\* raises, the user turn is the literal script line of the step and the
\* respondent turn of that step follows; an earlier empty attempt only
\* retries.
C25_InterviewerNeverAborts ==
    [][(sPhase = "interviewer" /\ sMode = "llm") =>
          /\ sPhase' \in {"interviewer", "respondent"}
          /\ sError' = ""
          /\ sStep' = sStep
          /\ (InterviewerGotEmpty /\ sAttempt + 1 = InterviewerMaxAttempts)
                => FallsBackToScript
          /\ InterviewerGotError => FallsBackToScript
          /\ (InterviewerGotEmpty /\ sAttempt + 1 < InterviewerMaxAttempts)
                => (sPhase' = "interviewer" /\ messages' = messages
                    /\ sAttempt' = sAttempt + 1)]_vars

C25_Witness ==
    /\ sMode = "llm"
    /\ sPhase = "done"
    /\ sReturned.returned
    /\ sRequests.interviewer = InterviewerMaxAttempts + 1
    /\ sReturned.messages[1].content = ScriptLine(1)
    /\ sReturned.messages[3].content = ScriptLine(2)

\* C26: the respondent has the larger budget (5 attempts against 3); run()
\* raises "respondent response missing." exactly when 5 attempts of one step
\* were empty, and then no session is returned: the turns collected so far
\* are dropped; with fewer than 5 empty attempts the run goes on, and only an
\* error of the client itself makes it fail.
C26_RespondentBudget ==
    /\ RespondentMaxAttempts > InterviewerMaxAttempts
    /\ sError = MissingError("respondent") <=>
          (sPhase = "failed" /\ sAttempt = RespondentMaxAttempts)
    /\ sPhase = "failed" =>
          /\ sReturned = NoSession
          /\ sError \in {MissingError("respondent"), ClientError}
          /\ sError = ClientError => sResponse = RaisedResponse
    /\ sPhase = "respondent" => (sAttempt < RespondentMaxAttempts /\ sError = "")
    /\ sAttempt = RespondentMaxAttempts => sResponse \in EmptyOutputs

C26_Witness ==
    /\ sPhase = "failed"
    /\ sError = MissingError("respondent")
    /\ sAttempt = RespondentMaxAttempts
    /\ sStep = ScriptLen
    /\ Len(messages) = 2 * ScriptLen - 1
    /\ sReturned = NoSession

\* The attempt budget of the request in progress.
CurrentBudget ==
    IF sPhase = "interviewer" THEN InterviewerMaxAttempts ELSE RespondentMaxAttempts

\* C27: the delays between content attempts are linear: the wait after the
\* k-th empty attempt is 1000 * k ms, there is no wait after the last attempt
\* of the budget, and a respondent turn that uses up its 5 attempts has waited
\* 1000 * (1 + 2 + 3 + 4) ms in all.
C27_LinearDelays ==
    sPhase \in {"interviewer", "respondent", "failed"} =>
        /\ Len(sWaits) = Min(sAttempt, CurrentBudget - 1)
        /\ \A k \in 1 .. Len(sWaits) : sWaits[k] = 1000 * k
        /\ sError = MissingError("respondent") =>
              SumSeq(sWaits) = 1000 * (1 + 2 + 3 + 4)

C27_Witness ==
    /\ sPhase = "failed"
    /\ sError = MissingError("respondent")
    /\ sWaits = <<1000, 2000, 3000, 4000>>

\* The text holds nothing but formatting artifacts and white space.
OnlyArtifactsAndSpace(text) ==
    \A i \in 1 .. Len(text) : text[i] \in Artifacts \/ IsSpace(text[i])

HoldsArtifact(text) == \E i \in 1 .. Len(text) : text[i] \in Artifacts

\* The turn was written by a model (not copied from the script).
ModelProduced(turn) ==
    turn.role = "assistant" \/ turn.content # ScriptLine(turn.step)

\* The step taken received a message from a completion request.
GotMessage ==
    /\ TotalRequests' = TotalRequests + 1
    /\ sResponse' \in ModelMessages

\* C28: an output that holds only artifacts and white space is treated as
\* empty and uses up one attempt (no turn is stored for it); any other output
\* is stored without its artifacts and trimmed; and every model-produced turn
\* of a returned session is non-empty, trimmed and free of artifacts.
C28_SanitizedBeforeAccepted ==
    /\ [](sReturned.returned =>
            \A i \in 1 .. Len(sReturned.messages) :
                ModelProduced(sReturned.messages[i]) =>
                    /\ sReturned.messages[i].content # <<>>
                    /\ ~HoldsArtifact(sReturned.messages[i].content)
                    /\ Trim(sReturned.messages[i].content) = sReturned.messages[i].content)
    /\ [][GotMessage =>
            IF OnlyArtifactsAndSpace(ExtractMessageText(sResponse'))
            THEN \/ sAttempt' = sAttempt + 1 /\ messages' = messages
                 \/ sPhase = "interviewer" /\ FallsBackToScript
            ELSE /\ Len(messages') = Len(messages) + 1
                 /\ messages'[Len(messages')].content =
                        Trim(StripArtifacts(ExtractMessageText(sResponse')))
                 /\ sAttempt' = 0]_vars

C28_Witness ==
    /\ sReturned.returned
    /\ sEmptyAnswers = 1
    /\ TotalRequests = ScriptLen + 1
    /\ sResponse = Message(<<"<s>", "o", "k", "</s>", " ">>, <<"n", "o">>)
    /\ sReturned.messages[2 * ScriptLen].content = <<"o", "k">>

SessionEnded == sPhase \in {"done", "failed"}

\* Steps run() can still take: the attempts left in the request in progress,
\* the respondent's budget when the interviewer is still to be heard, and
\* both budgets for every later step of the script.
StepsLeft ==
    IF SessionEnded THEN 0
    ELSE (ScriptLen - sStep) * (InterviewerMaxAttempts + RespondentMaxAttempts + 1)
         + (IF sPhase = "interviewer"
            THEN InterviewerMaxAttempts - sAttempt + RespondentMaxAttempts
            ELSE RespondentMaxAttempts - sAttempt)
         + 1

\* C29: run() ends in one of its two terminal states, every request being
\* answered: as long as it has not ended a step is possible, and every step
\* lowers the number of steps left; it issues at most 5 * N requests in
\* script mode and (3 + 5) * N in llm mode; and it never goes back to an
\* earlier step.
C29_SessionTerminates ==
    /\ [](/\ sMode = "script" => TotalRequests <= RespondentMaxAttempts * ScriptLen
          /\ sMode = "llm" => TotalRequests <=
                (InterviewerMaxAttempts + RespondentMaxAttempts) * ScriptLen
          /\ sPhase = "done" => (sStep = ScriptLen + 1 /\ sReturned.returned)
          /\ sPhase = "failed" => (sStep <= ScriptLen /\ sError # ""))
    /\ [](StepsLeft >= 0 /\ (~SessionEnded => ENABLED SessionNext))
    /\ [][sStep' >= sStep /\ StepsLeft' < StepsLeft]_vars

C29_Witness ==
    /\ sMode = "llm"
    /\ sPhase = "done"
    /\ sRequests.interviewer = InterviewerMaxAttempts * ScriptLen
    /\ sRequests.respondent = RespondentMaxAttempts * ScriptLen

\* The step taken saw the respondent request raise.
RespondentGotError ==
    /\ sPhase = "respondent"
    /\ sRequests'.respondent = sRequests.respondent + 1
    /\ sResponse' = RaisedResponse

\* C36: a terminal error of the client during a respondent attempt leaves
\* run() at once, whichever attempt it is: the session fails with that
\* error, no further request of the turn is made and nothing is returned;
\* the attempt counter moves only on a response that is empty once sanitized.
C36_RespondentErrorPropagates ==
    /\ [](sError = ClientError =>
            /\ sPhase = "failed"
            /\ sResponse = RaisedResponse
            /\ sAttempt < RespondentMaxAttempts
            /\ sReturned = NoSession)
    /\ [][/\ RespondentGotError =>
              /\ sPhase' = "failed"
              /\ sError' = ClientError
              /\ sAttempt' = sAttempt
              /\ sWaits' = sWaits
              /\ messages' = messages
          /\ sAttempt' = sAttempt + 1 => sResponse' \in EmptyOutputs
          /\ sPhase = "failed" => sRequests' = sRequests]_vars

C36_Witness ==
    /\ sPhase = "failed"
    /\ sError = ClientError
    /\ sStep = ScriptLen
    /\ sAttempt = RespondentMaxAttempts - 1
    /\ sRequests.respondent = RespondentMaxAttempts + 1

FrameTexts ==
    {SystemPrompt(l) : l \in {"interviewer", "respondent"}}
        \cup {RetryPrompt(l) : l \in {"interviewer", "respondent"}}
        \cup {Instruction(i) : i \in 1 .. ScriptLen}

\* Only accepted turns: user and assistant turns whose text is none of the
\* system prompts, the retry prompts and the interviewer instructions.
OnlyAcceptedTurns(msgs) ==
    \A i \in 1 .. Len(msgs) :
        /\ msgs[i].role \in {"user", "assistant"}
        /\ msgs[i].content \notin FrameTexts

\* The role asked by the step taken, when it makes a request.
AskedLabel == IF sPhase = "interviewer" THEN "interviewer" ELSE "respondent"

\* The request of the step taken: the system prompt, then the transcript as
\* it is, then the instruction naming the script line (interviewer only),
\* then the retry prompt when it is not the first attempt.
SentFrame ==
    LET n == Len(messages)
        tail == SubSeq(sSent', n + 2, Len(sSent'))
        instruction == IF AskedLabel = "interviewer"
                       THEN <<Turn("user", Instruction(sStep), sStep)>> ELSE <<>>
        retry == IF sAttempt > 0
                 THEN <<Turn("user", RetryPrompt(AskedLabel), sStep)>> ELSE <<>>
    IN /\ Len(sSent') >= n + 1
       /\ sSent'[1] = Turn("system", SystemPrompt(AskedLabel), sStep)
       /\ SubSeq(sSent', 2, n + 1) = messages
       /\ tail = instruction \o retry

\* C37: the system prompts, the interviewer instruction and the retry prompt
\* are sent in requests only and never become turns: the transcript, and a
\* returned session, hold only accepted user and assistant turns; a request
\* carries the transcript framed by those texts; an empty or failed attempt
\* leaves the transcript as it was (the interviewer's last one is followed
\* by the script line of the step), and an accepted one appends one turn,
\* the sanitized text of the response.
C37_FrameNeverInTranscript ==
    /\ [](/\ OnlyAcceptedTurns(messages)
          /\ OnlyAcceptedTurns(sReturned.messages)
          /\ Len(messages) <= 2 * ScriptLen)
    /\ [][TotalRequests' = TotalRequests + 1 =>
              /\ SentFrame
              /\ sResponse' \in EmptyOutputs \cup {RaisedResponse} =>
                    \/ messages' = messages
                    \/ sPhase = "interviewer" /\ FallsBackToScript
              /\ sResponse' \in TextOutputs =>
                    /\ Len(messages') = Len(messages) + 1
                    /\ SubSeq(messages', 1, Len(messages)) = messages
                    /\ messages'[Len(messages')].content = CleanedContent(sResponse')]_vars

C37_Witness ==
    /\ sMode = "llm"
    /\ sPhase = "done"
    /\ sReturned.returned
    /\ Len(sReturned.messages) = 2 * ScriptLen
    /\ sRequests.interviewer > ScriptLen
    /\ sEmptyAnswers > 0
    /\ sSent[Len(sSent)] = Turn("user", RetryPrompt("respondent"), ScriptLen)
    /\ Len(sSent) = 2 * ScriptLen + 1

\* ------------------------------------------------------------------------
\* JSON texts: JSON.stringify and JSON.parse on the values of the model
\* ------------------------------------------------------------------------
\* A JSON value: a string, a number (its digits), an array (its items) or an
\* object (its <<key, value>> members, in order).
JStr(chars) == [t |-> "string", v |-> chars]

JNum(digits) == [t |-> "number", v |-> digits]

JArr(items) == [t |-> "array", v |-> items]

JObj(members) == [t |-> "object", v |-> members]

Digits == {"0", "1", "2", "3", "4", "5", "6", "7", "8", "9"}

\* JSON.stringify of a string: quotes and backslashes are escaped.
RECURSIVE EscapeChars(_)
EscapeChars(chars) ==
    IF chars = <<>> THEN <<>>
    ELSE IF Head(chars) \in {"\"", "\\"}
         THEN <<"\\", Head(chars)>> \o EscapeChars(Tail(chars))
    ELSE <<Head(chars)>> \o EscapeChars(Tail(chars))

\* JSON.stringify(value), without indentation.
RECURSIVE Serialize(_)
RECURSIVE SerializeItems(_)
RECURSIVE SerializeMembers(_)
Serialize(value) ==
    CASE value.t = "string" -> <<"\"">> \o EscapeChars(value.v) \o <<"\"">>
      [] value.t = "number" -> value.v
      [] value.t = "array" -> <<"[">> \o SerializeItems(value.v) \o <<"]">>
      [] value.t = "object" -> <<"{">> \o SerializeMembers(value.v) \o <<"}">>

SerializeItems(items) ==
    IF items = <<>> THEN <<>>
    ELSE IF Len(items) = 1 THEN Serialize(items[1])
    ELSE Serialize(items[1]) \o <<",">> \o SerializeItems(Tail(items))

SerializeMembers(members) ==
    IF members = <<>> THEN <<>>
    ELSE LET one == Serialize(JStr(members[1][1])) \o <<":">> \o Serialize(members[1][2])
         IN IF Len(members) = 1 THEN one
            ELSE one \o <<",">> \o SerializeMembers(Tail(members))

\* JSON.parse, as a recursive-descent parser. A parse step gives
\* [ok, value, next]: whether a value was read at position i, the value, and
\* the position after it.
ParseFail == [ok |-> FALSE, value |-> JNum(<<>>), next |-> 0]

RECURSIVE SkipSpaces(_, _)
SkipSpaces(s, i) ==
    IF i <= Len(s) /\ IsSpace(s[i]) THEN SkipSpaces(s, i + 1) ELSE i

\* The characters of a string literal whose opening quote precedes position i.
RECURSIVE ParseStringFrom(_, _, _)
ParseStringFrom(s, i, acc) ==
    IF i > Len(s) THEN ParseFail
    ELSE IF s[i] = "\"" THEN [ok |-> TRUE, value |-> JStr(acc), next |-> i + 1]
    ELSE IF s[i] = "\\"
         THEN IF i + 1 <= Len(s) /\ s[i + 1] \in {"\"", "\\", "/"}
              THEN ParseStringFrom(s, i + 2, Append(acc, s[i + 1]))
              ELSE ParseFail
    ELSE IF s[i] \in {"\n", "\t"} THEN ParseFail
    ELSE ParseStringFrom(s, i + 1, Append(acc, s[i]))

RECURSIVE ParseDigitsFrom(_, _, _)
ParseDigitsFrom(s, i, acc) ==
    IF i <= Len(s) /\ s[i] \in Digits
    THEN ParseDigitsFrom(s, i + 1, Append(acc, s[i]))
    ELSE IF acc = <<>> \/ (Len(acc) > 1 /\ acc[1] = "0") THEN ParseFail
    ELSE [ok |-> TRUE, value |-> JNum(acc), next |-> i]

RECURSIVE ParseValueAt(_, _)
RECURSIVE ParseItemsFrom(_, _, _)
RECURSIVE ParseMembersFrom(_, _, _)
ParseValueAt(s, i0) ==
    LET i == SkipSpaces(s, i0)
    IN IF i > Len(s) THEN ParseFail
       ELSE IF s[i] = "\"" THEN ParseStringFrom(s, i + 1, <<>>)
       ELSE IF s[i] \in Digits THEN ParseDigitsFrom(s, i, <<>>)
       ELSE IF s[i] = "["
            THEN LET j == SkipSpaces(s, i + 1)
                 IN IF j <= Len(s) /\ s[j] = "]"
                    THEN [ok |-> TRUE, value |-> JArr(<<>>), next |-> j + 1]
                    ELSE ParseItemsFrom(s, i + 1, <<>>)
       ELSE IF s[i] = "{"
            THEN LET j == SkipSpaces(s, i + 1)
                 IN IF j <= Len(s) /\ s[j] = "}"
                    THEN [ok |-> TRUE, value |-> JObj(<<>>), next |-> j + 1]
                    ELSE ParseMembersFrom(s, i + 1, <<>>)
       ELSE ParseFail

ParseItemsFrom(s, i, acc) ==
    LET item == ParseValueAt(s, i)
        j == SkipSpaces(s, item.next)
    IN IF ~item.ok \/ j > Len(s) THEN ParseFail
       ELSE IF s[j] = "," THEN ParseItemsFrom(s, j + 1, Append(acc, item.value))
       ELSE IF s[j] = "]"
            THEN [ok |-> TRUE, value |-> JArr(Append(acc, item.value)), next |-> j + 1]
       ELSE ParseFail

ParseMembersFrom(s, i, acc) ==
    LET k == SkipSpaces(s, i)
        key == IF k <= Len(s) /\ s[k] = "\"" THEN ParseStringFrom(s, k + 1, <<>>)
               ELSE ParseFail
        c == SkipSpaces(s, key.next)
        val == IF key.ok /\ c <= Len(s) /\ s[c] = ":" THEN ParseValueAt(s, c + 1)
               ELSE ParseFail
        j == SkipSpaces(s, val.next)
        members == Append(acc, <<key.value.v, val.value>>)
    IN IF ~val.ok \/ j > Len(s) THEN ParseFail
       ELSE IF s[j] = "," THEN ParseMembersFrom(s, j + 1, members)
       ELSE IF s[j] = "}"
            THEN [ok |-> TRUE, value |-> JObj(members), next |-> j + 1]
       ELSE ParseFail

\* JSON.parse(text): [ok, value]; ok = FALSE when it throws.
ParseJson(text) ==
    LET r == ParseValueAt(text, 1)
    IN IF r.ok /\ SkipSpaces(text, r.next) = Len(text) + 1
       THEN [ok |-> TRUE, value |-> r.value]
       ELSE [ok |-> FALSE, value |-> JNum(<<>>)]

\* ------------------------------------------------------------------------
\* extractJsonBlock
\* ------------------------------------------------------------------------
\* Longest string value of the model's JSON values.
MaxStrLen == 3

\* The backtick character, written "~" here.
Backtick == "~"

Fence == <<Backtick, Backtick, Backtick>>

\* String.prototype.indexOf(t, from), 1-based; 0 when there is none.
IndexFrom(s, t, from) ==
    LET at == {i \in Occurrences(s, t) : i >= from}
    IN IF at = {} THEN 0 ELSE SetMin(at)

LowerCase(c) ==
    CASE c = "J" -> "j" [] c = "S" -> "s" [] c = "O" -> "o" [] c = "N" -> "n"
      [] c = "P" -> "p" [] c = "A" -> "a" [] c = "I" -> "i"
      [] OTHER -> c

\* (?:json)? under the i flag: the position after an optional "json" at i.
AfterJsonTag(s, i) ==
    IF i + 3 <= Len(s)
       /\ [k \in 1 .. 4 |-> LowerCase(s[i + k - 1])] = <<"j", "s", "o", "n">>
    THEN i + 4 ELSE i

\* content.match(/~~~(?:json)?\s*([\s\S]*?)~~~/i): [matched, group]. The
\* match starts at the first fence; the lazy group ends at the first fence
\* found after the tag and the white space that follow the opening one.
FencedMatch(content) ==
    LET open == IndexFrom(content, Fence, 1)
        from == IF open = 0 THEN 0
                ELSE SkipSpaces(content, AfterJsonTag(content, open + 3))
        close == IF open = 0 THEN 0 ELSE IndexFrom(content, Fence, from)
    IN IF close = 0 THEN [matched |-> FALSE, group |-> <<>>]
       ELSE [matched |-> TRUE, group |-> SubSeq(content, from, close - 1)]

\* findJsonStart(open): the first open bracket whose next non-space character is
\* "{" or "[" (for "[") or a double quote (for "{"); 0 when there is none.
RECURSIVE FindJsonStartFrom(_, _, _)
FindJsonStartFrom(content, open, from) ==
    LET index == IndexFrom(content, <<open>>, from)
        nextIndex == SkipSpaces(content, index + 1)
        nextChar == IF nextIndex <= Len(content) THEN content[nextIndex] ELSE "undefined"
    IN IF index = 0 THEN 0
       ELSE IF \/ open = "[" /\ nextChar \in {"{", "["}
               \/ open = "{" /\ nextChar = "\""
            THEN index
       ELSE FindJsonStartFrom(content, open, index + 1)

\* The first open bracket, whatever follows it.
FindJsonStartAnyBracket(content, open) == IndexFrom(content, <<open>>, 1)

FindJsonStart(content, open) == FindJsonStartFrom(content, open, 1)

\* findMatchingBracket: the loop from i with its locals depth, inString and
\* escape; 0 when the end of the content is reached.
RECURSIVE MatchFrom(_, _, _, _, _, _, _)
MatchFrom(content, open, close, i, depth, inString, escape) ==
    IF i > Len(content) THEN 0
    ELSE LET char == content[i]
         IN IF inString
            THEN IF escape
                 THEN MatchFrom(content, open, close, i + 1, depth, TRUE, FALSE)
                 ELSE IF char = "\\"
                 THEN MatchFrom(content, open, close, i + 1, depth, TRUE, TRUE)
                 ELSE IF char = "\""
                 THEN MatchFrom(content, open, close, i + 1, depth, FALSE, FALSE)
                 ELSE MatchFrom(content, open, close, i + 1, depth, TRUE, FALSE)
            ELSE IF char = "\""
                 THEN MatchFrom(content, open, close, i + 1, depth, TRUE, escape)
                 ELSE IF char = open
                 THEN MatchFrom(content, open, close, i + 1, depth + 1, FALSE, escape)
                 ELSE IF char = close
                 THEN IF depth - 1 = 0 THEN i
                      ELSE MatchFrom(content, open, close, i + 1, depth - 1, FALSE, escape)
                 ELSE MatchFrom(content, open, close, i + 1, depth, FALSE, escape)

\* Bracket matching that counts the brackets inside strings too.
RECURSIVE MatchIgnoringStringsFrom(_, _, _, _, _)
MatchIgnoringStringsFrom(content, open, close, i, depth) ==
    IF i > Len(content) THEN 0
    ELSE IF content[i] = open
         THEN MatchIgnoringStringsFrom(content, open, close, i + 1, depth + 1)
    ELSE IF content[i] = close
         THEN IF depth - 1 = 0 THEN i
              ELSE MatchIgnoringStringsFrom(content, open, close, i + 1, depth - 1)
    ELSE MatchIgnoringStringsFrom(content, open, close, i + 1, depth)

FindMatchingBracketIgnoringStrings(content, start, open, close) ==
    MatchIgnoringStringsFrom(content, open, close, start, 0)

FindMatchingBracket(content, start, open, close) ==
    MatchFrom(content, open, close, start, 0, FALSE, FALSE)

NoBlock == [found |-> FALSE, text |-> <<>>]

Block(text) == [found |-> TRUE, text |-> text]

\* The bracket scan for one kind of bracket: content.slice(start, end + 1).trim()
BracketBlock(content, open, close) ==
    LET start == FindJsonStart(content, open)
        end == IF start = 0 THEN 0 ELSE FindMatchingBracket(content, start, open, close)
    IN IF start # 0 /\ end # 0 THEN Block(Trim(SubSeq(content, start, end)))
       ELSE NoBlock

\* The two bracket rules in the other order.
ExtractJsonBlockObjectFirst(content) ==
    LET fenced == FencedMatch(content)
    IN IF fenced.matched /\ fenced.group # <<>> THEN Block(Trim(fenced.group))
       ELSE IF BracketBlock(content, "{", "}").found THEN BracketBlock(content, "{", "}")
       ELSE BracketBlock(content, "[", "]")

\* extractJsonBlock(content): the string returned, or null.
ExtractJsonBlock(content) ==
    LET fenced == FencedMatch(content)
    IN IF fenced.matched /\ fenced.group # <<>> THEN Block(Trim(fenced.group))
       ELSE IF BracketBlock(content, "[", "]").found THEN BracketBlock(content, "[", "]")
       ELSE BracketBlock(content, "{", "}")

\* Characters of the string values; "z" stands for any ordinary character.
StringChars == {"z", Backtick, "[", "{", "]", "}", "\"", "\\"}

RECURSIVE StringsUpTo(_)
StringsUpTo(n) ==
    IF n = 0 THEN {<<>>}
    ELSE LET shorter == StringsUpTo(n - 1)
         IN shorter \cup {Append(w, c) : w \in shorter, c \in StringChars}

\* The JSON values of the model: strings, and a number, arrays and objects
\* holding them, an array of objects and an object holding one.
JsonValues ==
    LET strings == {JStr(w) : w \in StringsUpTo(MaxStrLen)}
    IN strings
       \cup {JNum(<<"4", "2">>), JArr(<<>>), JObj(<<>>)}
       \cup {JObj(<< <<<<"a">>, JNum(<<"1">>)>> >>)}
       \cup {JObj(<< <<<<"a">>, JArr(<<JObj(<< <<<<"b">>, JNum(<<"1">>)>> >>)>>)>> >>)}
       \cup {JArr(<<w, JNum(<<"7">>)>>) : w \in strings}
       \cup {JObj(<< <<<<"k">>, w>> >>) : w \in strings}
       \cup {JArr(<<JObj(<< <<<<"k">>, w>> >>)>>) : w \in strings}

\* JSON.stringify with a space after each colon and comma, as models write it.
RECURSIVE SerializeSpaced(_)
RECURSIVE SerializeSpacedItems(_)
RECURSIVE SerializeSpacedMembers(_)
SerializeSpaced(value) ==
    CASE value.t = "array" -> <<"[">> \o SerializeSpacedItems(value.v) \o <<"]">>
      [] value.t = "object" -> <<"{">> \o SerializeSpacedMembers(value.v) \o <<"}">>
      [] OTHER -> Serialize(value)

SerializeSpacedItems(items) ==
    IF items = <<>> THEN <<>>
    ELSE IF Len(items) = 1 THEN SerializeSpaced(items[1])
    ELSE SerializeSpaced(items[1]) \o <<",", " ">> \o SerializeSpacedItems(Tail(items))

SerializeSpacedMembers(members) ==
    IF members = <<>> THEN <<>>
    ELSE LET one == Serialize(JStr(members[1][1])) \o <<":", " ">>
                    \o SerializeSpaced(members[1][2])
         IN IF Len(members) = 1 THEN one
            ELSE one \o <<",", " ">> \o SerializeSpacedMembers(Tail(members))

\* Prose around a value: none, or words with stray brackets in them.
ProseBefore ==
    {<<>>,
     <<"s", "e", "e", " ", "[", "1", "]", " ", "{", "x", "}", ":", " ">>,
     <<"[", "[", " ", "o", "r", " ">>}

ProseAfter == {<<>>, <<" ", "o", "k", " ", "}", "]">>}

\* A fenced code block around a text, with or without the json tag.
OpeningFences == {Fence \o <<"j", "s", "o", "n", "\n">>, Fence \o <<"\n">>, Fence}

ExtractInit ==
    /\ xValue \in JsonValues
    /\ xText = <<>>
    /\ xOut = NoBlock
    /\ xpc = "value"
    /\ xKind = "none"
    /\ xInner = <<>>
    /\ xStart = 0

\* The text handed to the extractor: the serialized value wrapped in a fenced code block.
WrapInFence ==
    /\ xpc = "value"
    /\ \E opening \in OpeningFences :
        /\ xText' = opening \o Serialize(xValue) \o <<"\n">> \o Fence
        /\ xStart' = Len(opening) + 1
    /\ xKind' = "fenced"
    /\ xInner' = Serialize(xValue)
    /\ xpc' = "text"
    /\ UNCHANGED <<xValue, xOut>>
    /\ UNCHANGED nonExtractVars

\* The text handed to the extractor: an object or array written by a model,
\* with or without prose around it and with no fenced code block.
EmbedInProse ==
    /\ xpc = "value"
    /\ xValue.t \in {"object", "array"}
    /\ \E before \in ProseBefore, after \in ProseAfter,
          inner \in {Serialize(xValue), SerializeSpaced(xValue)} :
        /\ xText' = before \o inner \o after
        /\ xInner' = inner
        /\ xStart' = Len(before) + 1
    /\ xKind' = "prose"
    /\ xpc' = "text"
    /\ UNCHANGED <<xValue, xOut>>
    /\ UNCHANGED nonExtractVars

\* extractJsonBlock(content)
Extract ==
    /\ xpc = "text"
    /\ xOut' = ExtractJsonBlock(xText)
    /\ xpc' = "extracted"
    /\ UNCHANGED <<xValue, xText, xKind, xInner, xStart>>
    /\ UNCHANGED nonExtractVars

ExtractNext == WrapInFence \/ EmbedInProse \/ Extract

ExtractIdle ==
    /\ xValue = JNum(<<"0">>)
    /\ xText = <<>>
    /\ xOut = NoBlock
    /\ xpc = "idle"
    /\ xKind = "none"
    /\ xInner = <<>>
    /\ xStart = 0

\* ---- claims about extractJsonBlock ----
\* C10: for every JSON value v, extracting from the fenced serialization of v
\* returns a string that JSON.parse turns into a value equal to v.
C10_FencedRoundTrip ==
    (xpc = "extracted" /\ xKind = "fenced") =>
        /\ xOut.found
        /\ ParseJson(xOut.text) = [ok |-> TRUE, value |-> xValue]

\* The same, for the values whose serialization holds no run of three
\* backticks.
C10_FencedRoundTripWithoutFenceInside ==
    (xpc = "extracted" /\ xKind = "fenced" /\ ~Includes(Serialize(xValue), Fence)) =>
        /\ xOut.found
        /\ ParseJson(xOut.text) = [ok |-> TRUE, value |-> xValue]

\* Position i of a text holds an open bracket whose next non-space character
\* is one of `nexts`.
FollowedBy(text, i, nexts) ==
    \E j \in (i + 1) .. Len(text) :
        /\ text[j] \in nexts
        /\ \A k \in (i + 1) .. (j - 1) : IsSpace(text[k])

\* Positions that look like the start of an array of objects or arrays, and
\* like the start of an object with a quoted key.
ArrayLikeStarts(text) ==
    {i \in 1 .. Len(text) : text[i] = "[" /\ FollowedBy(text, i, {"[", "{"})}

ObjectLikeStarts(text) ==
    {i \in 1 .. Len(text) : text[i] = "{" /\ FollowedBy(text, i, {"\""})}

NoFenceIn(text) == Occurrences(text, Fence) = {}

\* An object with at least one key, given in prose with no fence.
ObjectInProse ==
    /\ xpc = "extracted"
    /\ xKind = "prose"
    /\ xValue.t = "object"
    /\ xValue.v # <<>>
    /\ NoFenceIn(xText)

RECURSIVE HoldsBracketInString(_)
HoldsBracketInString(value) ==
    CASE value.t = "string" -> \E i \in 1 .. Len(value.v) : value.v[i] \in {"[", "]", "{", "}"}
      [] value.t = "number" -> FALSE
      [] value.t = "array" -> \E i \in 1 .. Len(value.v) : HoldsBracketInString(value.v[i])
      [] value.t = "object" -> \E i \in 1 .. Len(value.v) : HoldsBracketInString(value.v[i][2])

\* A well-formed object or array with brackets inside its strings, given
\* with no fence.
BracketsInStrings ==
    /\ xpc = "extracted"
    /\ xKind = "prose"
    /\ HoldsBracketInString(xValue)
    /\ NoFenceIn(xText)

OpenOf(value) == IF value.t = "array" THEN "[" ELSE "{"

CloseOf(value) == IF value.t = "array" THEN "]" ELSE "}"

UnfencedExtracted == xpc = "extracted" /\ xKind = "prose" /\ NoFenceIn(xText)

MatchOf(i, open, close) == FindMatchingBracket(xText, i, open, close)

\* The text from an open bracket to its matching close bracket.
Span(i, open, close) == Block(SubSeq(xText, i, MatchOf(i, open, close)))

MatchedArrayStarts == {i \in ArrayLikeStarts(xText) : MatchOf(i, "[", "]") # 0}

MatchedObjectStarts == {i \in ObjectLikeStarts(xText) : MatchOf(i, "{", "}") # 0}

\* C23 (as stated): with no fenced block, if some "[" followed by "{" or "["
\* has a matching "]", the result is the text from the first such "[" to its
\* match; the object rule applies only when there is no such "[", and the
\* result is none only when neither rule has a candidate.
C23_ArrayRuleFirst ==
    UnfencedExtracted =>
        /\ MatchedArrayStarts # {} =>
              xOut = Span(SetMin(MatchedArrayStarts), "[", "]")
        /\ (MatchedArrayStarts = {} /\ MatchedObjectStarts # {}) =>
              xOut = Span(SetMin(MatchedObjectStarts), "{", "}")
        /\ xOut = NoBlock => (MatchedArrayStarts = {} /\ MatchedObjectStarts = {})

\* The first "[" followed by "{" or "[" is the only one tried, and it has a
\* matching "]".
ArrayCandidate ==
    /\ ArrayLikeStarts(xText) # {}
    /\ MatchOf(SetMin(ArrayLikeStarts(xText)), "[", "]") # 0

ObjectCandidate ==
    /\ ObjectLikeStarts(xText) # {}
    /\ MatchOf(SetMin(ObjectLikeStarts(xText)), "{", "}") # 0

\* C23 (amended): with no fenced block, if the first "[" followed by "{" or
\* "[" has a matching "]", the result is the text from it to its match, also
\* inside an object that starts earlier; otherwise (no such "[", or the first
\* one unmatched: later ones are not tried) the same holds of the first "{"
\* followed by a double quote; otherwise the result is none.
C23_ArrayRuleFirstOnFirstStart ==
    UnfencedExtracted =>
        /\ ArrayCandidate =>
              xOut = Span(SetMin(ArrayLikeStarts(xText)), "[", "]")
        /\ (~ArrayCandidate /\ ObjectCandidate) =>
              xOut = Span(SetMin(ObjectLikeStarts(xText)), "{", "}")
        /\ (~ArrayCandidate /\ ~ObjectCandidate) => xOut = NoBlock

C23_Witness ==
    /\ UnfencedExtracted
    /\ xValue.t = "object"
    /\ xStart > 1
    /\ ObjectCandidate
    /\ ArrayCandidate
    /\ SetMin(ObjectLikeStarts(xText)) = xStart
    /\ SetMin(ArrayLikeStarts(xText)) > xStart
    /\ xOut = Block(<<"[", "{", "\"", "b", "\"", ":", "1", "}", "]">>)

\* ------------------------------------------------------------------------
\* ProgressTracker under concurrently running sessions
\* ------------------------------------------------------------------------
\* Sessions that issue completion calls concurrently.
NumCallers == 2

\* Successful calls counted after one registration.
MaxProgressCalls == 3

Callers == 1 .. NumCallers

\* Totals the trackers are constructed with.
TrackerTotals == {-1, 0, 2}

\* new ProgressTracker(total): total = Math.max(0, total), current = 0
NewTracker(total) == [active |-> TRUE, total |-> Max(0, total), current |-> 0]

\* ProgressTracker.complete(): no-op when total <= 0, else current = total.
Complete(tracker) ==
    IF tracker.total <= 0 THEN tracker
    ELSE [tracker EXCEPT !.current = tracker.total]

ProgressInit ==
    /\ pTracker = NoTracker
    /\ pCallers = [k \in Callers |-> "idle"]
    /\ pCalls = 0
    /\ pFails = 0
    /\ pPrev = 0
    /\ pCompleted = FALSE

\* setProgressTracker(new ProgressTracker(total))
RegisterTracker ==
    /\ \E total \in TrackerTotals : pTracker' = NewTracker(total)
    /\ pCalls' = 0
    /\ pFails' = 0
    /\ pPrev' = 0
    /\ pCompleted' = FALSE
    /\ UNCHANGED pCallers
    /\ UNCHANGED nonProgressVars

\* setProgressTracker(null)
UnregisterTracker ==
    /\ pTracker.active
    /\ pTracker' = NoTracker
    /\ UNCHANGED <<pCallers, pCalls, pFails, pPrev, pCompleted>>
    /\ UNCHANGED nonProgressVars

\* A session issues a completion request and is suspended at the post.
CallStarts(k) ==
    /\ pCallers[k] = "idle"
    /\ pCallers' = [pCallers EXCEPT ![k] = "awaiting"]
    /\ UNCHANGED <<pTracker, pCalls, pFails, pPrev, pCompleted>>
    /\ UNCHANGED nonProgressVars

\* The post of session k resolves: reportProgress(1) runs to its end before
\* any other callback (one event loop), then the call returns.
CallSucceeds(k) ==
    /\ pCallers[k] = "awaiting"
    /\ pCalls < MaxProgressCalls
    /\ pTracker' = ReportProgress(pTracker, 1)
    /\ pPrev' = pTracker.current
    /\ pCalls' = pCalls + 1
    /\ pCallers' = [pCallers EXCEPT ![k] = "idle"]
    /\ UNCHANGED <<pFails, pCompleted>>
    /\ UNCHANGED nonProgressVars

\* The post of session k fails: no progress is reported.
CallFails(k) ==
    /\ pCallers[k] = "awaiting"
    /\ pFails < MaxProgressCalls
    /\ pFails' = pFails + 1
    /\ pCallers' = [pCallers EXCEPT ![k] = "idle"]
    /\ UNCHANGED <<pTracker, pCalls, pPrev, pCompleted>>
    /\ UNCHANGED nonProgressVars

\* The owner of the tracker calls complete() on it.
CompleteTracker ==
    /\ pTracker.active
    /\ ~pCompleted
    /\ pTracker' = Complete(pTracker)
    /\ pPrev' = pTracker.current
    /\ pCompleted' = TRUE
    /\ UNCHANGED <<pCallers, pCalls, pFails>>
    /\ UNCHANGED nonProgressVars

ProgressNext ==
    \/ RegisterTracker
    \/ UnregisterTracker
    \/ \E k \in Callers : CallStarts(k)
    \/ \E k \in Callers : CallSucceeds(k)
    \/ \E k \in Callers : CallFails(k)
    \/ CompleteTracker

ProgressIdle ==
    /\ pTracker = NoTracker
    /\ pCallers = [k \in Callers |-> "idle"]
    /\ pCalls = 0
    /\ pFails = 0
    /\ pPrev = -1
    /\ pCompleted = FALSE

\* ---- claims about ProgressTracker ----
\* C18: whatever the interleaving of the sessions' successful calls, the
\* registered tracker's current never decreases, stays between 0 and total,
\* and after n successful calls since the registration equals min(total, n)
\* (until complete() sets it to total).
C18_CounterMonotoneAndExact ==
    pTracker.active =>
        /\ 0 <= pTracker.current
        /\ pTracker.current <= pTracker.total
        /\ pPrev <= pTracker.current
        /\ ~pCompleted => pTracker.current = Min(pTracker.total, pCalls)

C18_Witness ==
    /\ pTracker.active
    /\ pTracker.total = 2
    /\ pCalls = 3
    /\ pFails > 0
    /\ pTracker.current = 2
    /\ ~pCompleted
    /\ \A k \in Callers : pCallers[k] = "awaiting"

\* ------------------------------------------------------------------------
\* allocateCountsByWeight (utils/allocations.ts)
\* ------------------------------------------------------------------------
\* Longest list of segments passed in.
MaxSegments == 3

\* Largest weight of a segment, in units of the smallest weight.
MaxWeight == 2

\* Largest total passed in.
MaxTotal == 3

SegmentIds == {"a", "b", "c"}

SegmentWeights == -1 .. MaxWeight

Totals == -1 .. MaxTotal

SegmentLists ==
    UNION {[1 .. n -> [id : SegmentIds, weight : SegmentWeights]] : n \in 1 .. MaxSegments}

NoAllocation == [none |-> TRUE]

NoError == ""

WeightSumError == "Segment weights must sum to a positive value."

RECURSIVE WeightSumFrom(_, _)
WeightSumFrom(segments, i) ==
    IF i > Len(segments) THEN 0
    ELSE segments[i].weight + WeightSumFrom(segments, i + 1)

\* segments.reduce((sum, segment) => sum + segment.weight, 0)
WeightSum(segments) == WeightSumFrom(segments, 1)

\* One item of `allocations`. exact = weight / weightSum * total is kept as
\* the fraction exactNum / weightSum; count = Math.floor(exact) and
\* remainder = exact - count = remNum / weightSum.
AllocationItem(segment, weightSum, total) ==
    [id |-> segment.id,
     exactNum |-> segment.weight * total,
     count |-> (segment.weight * total) \div weightSum,
     remNum |-> (segment.weight * total) % weightSum]

\* segments.map(...)
Allocations(segments, total) ==
    [i \in 1 .. Len(segments) |-> AllocationItem(segments[i], WeightSum(segments), total)]

RECURSIVE CountSumFrom(_, _)
CountSumFrom(allocations, i) ==
    IF i > Len(allocations) THEN 0
    ELSE allocations[i].count + CountSumFrom(allocations, i + 1)

\* total - allocations.reduce((sum, item) => sum + item.count, 0)
Remaining(allocations, total) == total - CountSumFrom(allocations, 1)

\* Puts item behind every item of `sorted` whose remainder is not smaller.
RECURSIVE InsertByRemainder(_, _)
InsertByRemainder(item, sorted) ==
    IF sorted = <<>> THEN <<item>>
    ELSE IF Head(sorted).remNum >= item.remNum
         THEN <<Head(sorted)>> \o InsertByRemainder(item, Tail(sorted))
         ELSE <<item>> \o sorted

RECURSIVE SortFrom(_, _, _)
SortFrom(allocations, i, sorted) ==
    IF i > Len(allocations) THEN sorted
    ELSE SortFrom(allocations, i + 1, InsertByRemainder(allocations[i], sorted))

\* allocations.sort((a, b) => b.remainder - a.remainder): stable, descending.
SortByRemainder(allocations) == SortFrom(allocations, 1, <<>>)

\* .forEach: while remaining > 0, item.count += 1 and remaining -= 1.
RECURSIVE GiveRemaining(_, _)
GiveRemaining(sorted, remaining) ==
    IF sorted = <<>> THEN <<>>
    ELSE IF remaining <= 0
         THEN <<Head(sorted)>> \o GiveRemaining(Tail(sorted), remaining)
         ELSE <<[Head(sorted) EXCEPT !.count = @ + 1]>>
                  \o GiveRemaining(Tail(sorted), remaining - 1)

\* Index of the last item carrying the id: the entry a Map keeps.
LastWithId(items, id) ==
    CHOOSE i \in 1 .. Len(items) :
        /\ items[i].id = id
        /\ \A j \in (i + 1) .. Len(items) : items[j].id # id

\* new Map(allocations.map((item) => [item.id, item.count]))
MapOfCounts(items) ==
    [id \in {items[i].id : i \in 1 .. Len(items)} |-> items[LastWithId(items, id)].count]

AllocateCountsByWeight(segments, total) ==
    MapOfCounts(GiveRemaining(SortByRemainder(Allocations(segments, total)),
                              Remaining(Allocations(segments, total), total)))

AllocInit ==
    /\ allocSegments \in SegmentLists
    /\ allocTotal \in Totals
    /\ allocOut = NoAllocation
    /\ allocError = NoError
    /\ allocPc = "ready"

\* The same case answered with an empty Map.
AllocateRaisesReturningEmpty ==
    /\ allocPc = "ready"
    /\ WeightSum(allocSegments) <= 0
    /\ allocOut' = [id \in {} |-> 0]
    /\ allocPc' = "returned"
    /\ UNCHANGED <<allocSegments, allocTotal, allocError>>
    /\ UNCHANGED nonAllocVars

\* if (weightSum <= 0) throw the Error; nothing is returned.
AllocateRaises ==
    /\ allocPc = "ready"
    /\ WeightSum(allocSegments) <= 0
    /\ allocError' = WeightSumError
    /\ allocPc' = "raised"
    /\ UNCHANGED <<allocSegments, allocTotal, allocOut>>
    /\ UNCHANGED nonAllocVars

AllocateReturns ==
    /\ allocPc = "ready"
    /\ WeightSum(allocSegments) > 0
    /\ allocOut' = AllocateCountsByWeight(allocSegments, allocTotal)
    /\ allocPc' = "returned"
    /\ UNCHANGED <<allocSegments, allocTotal, allocError>>
    /\ UNCHANGED nonAllocVars

AllocNext ==
    \/ AllocateRaises
    \/ AllocateReturns

AllocIdle ==
    /\ allocSegments = <<>>
    /\ allocTotal = 0
    /\ allocOut = NoAllocation
    /\ allocError = NoError
    /\ allocPc = "idle"

\* ---- claims about allocateCountsByWeight ----
NonNegativeWeights == \A i \in 1 .. Len(allocSegments) : allocSegments[i].weight >= 0

DistinctIds ==
    \A i, j \in 1 .. Len(allocSegments) :
        allocSegments[i].id = allocSegments[j].id => i = j

FloorShare(i) ==
    (allocSegments[i].weight * allocTotal) \div WeightSum(allocSegments)

FractionNum(i) ==
    (allocSegments[i].weight * allocTotal) % WeightSum(allocSegments)

RECURSIVE MapSum(_, _)
MapSum(map, ids) ==
    IF ids = {} THEN 0
    ELSE LET id == CHOOSE x \in ids : TRUE
         IN map[id] + MapSum(map, ids \ {id})

CountsAsClaimed ==
    /\ DOMAIN allocOut = {allocSegments[i].id : i \in 1 .. Len(allocSegments)}
    /\ Cardinality(DOMAIN allocOut) = Len(allocSegments)
    /\ \A id \in DOMAIN allocOut : allocOut[id] \in Nat
    /\ MapSum(allocOut, DOMAIN allocOut) = allocTotal
    /\ \A i \in 1 .. Len(allocSegments) :
          allocOut[allocSegments[i].id] \in {FloorShare(i), FloorShare(i) + 1}
    /\ \A i, j \in 1 .. Len(allocSegments) :
          (/\ allocOut[allocSegments[i].id] = FloorShare(i) + 1
           /\ allocOut[allocSegments[j].id] = FloorShare(j))
          => FractionNum(i) >= FractionNum(j)

\* C19 (as stated): for every total >= 0 and every list of segments with
\* non-negative weights of positive sum, the returned counts are
\* non-negative integers, one per segment, summing to total, each the floor
\* of the segment's share or one more, the extras on the largest remainders.
C19_CountsSumToTotal ==
    (allocPc = "returned" /\ allocTotal >= 0 /\ NonNegativeWeights)
        => CountsAsClaimed

\* C19 (restricted): the same, for segments whose ids are pairwise distinct.
C19_CountsSumToTotalForDistinctIds ==
    (allocPc = "returned" /\ allocTotal >= 0 /\ NonNegativeWeights /\ DistinctIds)
        => CountsAsClaimed

\* C20: whenever the weights sum to zero or less, whatever the total, the
\* call raises 'Segment weights must sum to a positive value.' and returns
\* no allocation; it raises in no other case.
C20_RaisesOnNonPositiveWeightSum ==
    allocPc \in {"returned", "raised"} =>
        /\ WeightSum(allocSegments) <= 0 =>
              /\ allocPc = "raised"
              /\ allocError = WeightSumError
              /\ allocOut = NoAllocation
        /\ WeightSum(allocSegments) > 0 =>
              /\ allocPc = "returned"
              /\ allocError = NoError

C20_Witness ==
    /\ allocPc = "raised"
    /\ allocError = WeightSumError
    /\ allocOut = NoAllocation
    /\ allocTotal = 3
    /\ Len(allocSegments) = 2
    /\ allocSegments[1].weight = 0
    /\ allocSegments[2].weight = 0

\* ------------------------------------------------------------------------
\* Session ids: InterviewSession.run (sessionId) and writeSession (file name)
\* ------------------------------------------------------------------------
\* Last reading of the clock in the model (ms after the batch was called).
MaxNow == 2

\* persona.id values of personas.json. The ids are written by the generator
\* model and PersonasSchema only checks that each is a string: nothing makes
\* them distinct or keeps ':' and '.' out of them.
PersonaIdPool == {<<"p", "-", "1">>, <<"p", ".", "1">>, <<"p", "-", "2">>}

NoId == <<>>

DecimalDigits == <<"0", "1", "2", "3", "4", "5", "6", "7", "8", "9">>

\* new Date().toISOString(): a fixed-width text with millisecond resolution,
\* "...T..:..:ss.sssZ"; the model keeps one ':' and one '.' and the last digit.
ToISOString(t) == <<"T", "0", ":", "0", ".", DecimalDigits[(t % 10) + 1], "Z">>

\* .replace(/[:.]/g, "-")
ReplaceColonAndDot(s) ==
    [i \in 1 .. Len(s) |-> IF s[i] \in {":", "."} THEN "-" ELSE s[i]]

\* As if the id were used as it is.
SessionIdOfPersonaOnly(id, startedAt) == ReplaceColonAndDot(id)

\* run: sessionId = `${this.persona.id}-${startedAt}`.replace(/[:.]/g, "-")
SessionId(id, startedAt) ==
    ReplaceColonAndDot(id \o <<"-">> \o ToISOString(startedAt))

\* writeSession: path.join(logDir, `${session.id}.json`)
LogFileName(sessionId) == sessionId \o <<".", "j", "s", "o", "n">>

KeyRunning == {p \in Personas : kTask[p] = "running"}

KeyInit ==
    /\ kPersonaIds \in [Personas -> PersonaIdPool]
    /\ kConcurrency \in 1 .. MaxConcurrency
    /\ kNow = 0
    /\ kTask = [p \in Personas |-> "queued"]
    /\ kStartedAt = [p \in Personas |-> 0]
    /\ kSessionId = [p \in Personas |-> NoId]
    /\ kLogs = {}

\* Time passes.
ClockTick ==
    /\ kNow < MaxNow
    /\ kNow' = kNow + 1
    /\ UNCHANGED <<kPersonaIds, kConcurrency, kTask, kStartedAt, kSessionId, kLogs>>
    /\ UNCHANGED nonKeyVars

\* p-limit starts the next queued task while activeCount < concurrency; its
\* run() reads the clock and computes sessionId before its first await.
BeginRun(p) ==
    /\ kTask[p] = "queued"
    /\ \A q \in Personas : q < p => kTask[q] # "queued"
    /\ CanAdmit(Cardinality(KeyRunning), kConcurrency)
    /\ kTask' = [kTask EXCEPT ![p] = "running"]
    /\ kStartedAt' = [kStartedAt EXCEPT ![p] = kNow]
    /\ kSessionId' = [kSessionId EXCEPT ![p] = SessionId(kPersonaIds[p], kNow)]
    /\ UNCHANGED <<kPersonaIds, kConcurrency, kNow, kLogs>>
    /\ UNCHANGED nonKeyVars

\* run() has returned (its network calls took time) and writeSession writes
\* <logs>/<session.id>.json; fs.writeFile replaces a file of that name.
WriteLogFile(p) ==
    /\ kTask[p] = "running"
    /\ kNow > kStartedAt[p]
    /\ kTask' = [kTask EXCEPT ![p] = "written"]
    /\ kLogs' = {f \in kLogs : f.name # LogFileName(kSessionId[p])}
                  \cup {[name |-> LogFileName(kSessionId[p]), persona |-> p]}
    /\ UNCHANGED <<kPersonaIds, kConcurrency, kNow, kStartedAt, kSessionId>>
    /\ UNCHANGED nonKeyVars

KeyNext ==
    \/ ClockTick
    \/ \E p \in Personas : BeginRun(p)
    \/ \E p \in Personas : WriteLogFile(p)

KeyIdle ==
    /\ kPersonaIds = [p \in Personas |-> NoId]
    /\ kConcurrency = 1
    /\ kNow = 0
    /\ kTask = [p \in Personas |-> "idle"]
    /\ kStartedAt = [p \in Personas |-> 0]
    /\ kSessionId = [p \in Personas |-> NoId]
    /\ kLogs = {}

\* ---- claims about session ids ----
\* C31: two sessions of one batch never have the same storage key, for any
\* persona list and any interleaving, so that every session written still
\* has its own record in storage: no write replaces another session's record.
C31_DistinctStorageKeys ==
    /\ \A p, q \in Personas :
          (p # q /\ kSessionId[p] # NoId /\ kSessionId[q] # NoId)
              => kSessionId[p] # kSessionId[q]
    /\ \A p \in Personas :
          kTask[p] = "written" =>
              [name |-> LogFileName(kSessionId[p]), persona |-> p] \in kLogs

\* The ids of personas.json stay distinct once ':' and '.' are replaced.
DistinctPersonaIds ==
    \A p, q \in Personas :
        p # q => ReplaceColonAndDot(kPersonaIds[p]) # ReplaceColonAndDot(kPersonaIds[q])

\* The same statement for persona lists with distinct ids.
C31_DistinctStorageKeysForDistinctIds ==
    DistinctPersonaIds => C31_DistinctStorageKeys

\* ------------------------------------------------------------------------
\* parseLooseAnalysisRow: the per-key pattern on the text of a model output
\* ------------------------------------------------------------------------
\* U+2013 and U+2014, each one character of the text.
EnDash == "en-dash"

EmDash == "em-dash"

\* As if the character class also held the en dash.
LooseSeparatorsWithEnDash == {"-", EnDash, EmDash, ":", "="}

\* The character class of the pattern: [\-—:=]
LooseSeparators == {"-", EmDash, ":", "="}

\* metric.key as text.
KeyText(k) ==
    IF k = "pain" THEN <<"p", "a", "i", "n">>
    ELSE <<"f", "r", "e", "q", "u", "e", "n", "c", "y">>

\* The key matches at i, ignoring case (flag "i").
KeyAt(s, k, i) ==
    /\ i + Len(KeyText(k)) - 1 <= Len(s)
    /\ \A j \in 1 .. Len(KeyText(k)) : LowerCase(s[i + j - 1]) = KeyText(k)[j]

\* (.+): '.' matches every character but a line terminator; the position of
\* the last character of the line that position i is on.
RECURSIVE EndOfLine(_, _)
EndOfLine(s, i) ==
    IF i < Len(s) /\ s[i + 1] # "\n" THEN EndOfLine(s, i + 1) ELSE i

\* Where the group (.+) starts when the key matches at i: after the key, the
\* white space and a separator, the second \s* takes all the white space
\* that follows and gives back as little as the group needs; 0 when the
\* pattern does not match at i.
GroupStart(s, k, i) ==
    IF ~KeyAt(s, k, i) THEN 0
    ELSE LET p == SkipSpaces(s, i + Len(KeyText(k)))
             q == SkipSpaces(s, p + 1)
             back == {r \in (p + 1) .. Len(s) : r < q /\ s[r] # "\n"}
         IN IF p > Len(s) \/ s[p] \notin LooseSeparators THEN 0
            ELSE IF q <= Len(s) THEN q
            ELSE IF back # {} THEN SetMax(back)
            ELSE 0

\* sanitized.match(pattern): the leftmost position where the pattern matches.
LooseMatches(s, k) == {i \in 1 .. Len(s) : GroupStart(s, k, i) > 0}

\* row[metric.key] = match ? match[1].trim() : ""
LooseValue(s, k) ==
    IF LooseMatches(s, k) = {} THEN <<>>
    ELSE LET g == GroupStart(s, k, SetMin(LooseMatches(s, k)))
         IN Trim(SubSeq(s, g, EndOfLine(s, g)))

\* parseLooseAnalysisRow of the text of a content.
LooseRowOfText(content) ==
    [k \in FieldKeys |-> LooseValue(Trim(StripArtifacts(content)), k)]

NoRow == [k \in {} |-> <<>>]

\* Pieces of the contents of the model: what precedes the key, the key as
\* written, the white space around the separator, the separator, the value
\* and what follows on the next line.
LoosePrefixes == {<<>>, <<"m", "y", " ">>, <<"<s>">>}

LooseKeys == {<<"p", "a", "i", "n">>, <<"P", "A", "I", "N">>, <<"g", "a", "i", "n">>}

LooseGaps == {<<>>, <<" ">>}

LooseSeparatorsWritten == {"-", EnDash, EmDash, ":", "=", "/"}

LooseValueGaps == {<<>>, <<" ">>, <<"\n">>}

LooseValues == {<<>>, <<"h", "i">>, <<"h", "i", " ">>}

LooseSuffixes == {<<>>, <<"\n", "s", "o">>}

LooseParts ==
    [prefix : LoosePrefixes, key : LooseKeys, gap : LooseGaps,
     sep : LooseSeparatorsWritten, valueGap : LooseValueGaps,
     value : LooseValues, suffix : LooseSuffixes]

TextOfParts(p) ==
    p.prefix \o p.key \o p.gap \o <<p.sep>> \o p.valueGap \o p.value \o p.suffix

LooseInit ==
    /\ lParts \in LooseParts
    /\ lContent = TextOfParts(lParts)
    /\ lRow = NoRow
    /\ lPc = "ready"

\* The cascade has a non-empty content that failed the strict parse:
\* looseRow = parseLooseAnalysisRow(content, config).
ParseLoose ==
    /\ lPc = "ready"
    /\ lRow' = LooseRowOfText(lContent)
    /\ lPc' = "parsed"
    /\ UNCHANGED <<lParts, lContent>>
    /\ UNCHANGED nonLooseVars

\* if (hasAnyValue(looseRow)): resolvedRow = looseRow; break.
LooseAccepted ==
    /\ lPc = "parsed"
    /\ HasAnyValue(lRow)
    /\ lPc' = "accepted"
    /\ UNCHANGED <<lParts, lContent, lRow>>
    /\ UNCHANGED nonLooseVars

\* Otherwise the content has given nothing: the reminder request, or the
\* next model.
LooseGivesNothing ==
    /\ lPc = "parsed"
    /\ ~HasAnyValue(lRow)
    /\ lPc' = "nothing"
    /\ UNCHANGED <<lParts, lContent, lRow>>
    /\ UNCHANGED nonLooseVars

LooseNext == ParseLoose \/ LooseAccepted \/ LooseGivesNothing

LooseIdle ==
    /\ lParts = [prefix |-> <<>>, key |-> <<>>, gap |-> <<>>, sep |-> "",
                 valueGap |-> <<>>, value |-> <<>>, suffix |-> <<>>]
    /\ lContent = <<>>
    /\ lRow = NoRow
    /\ lPc = "idle"

\* ---- claims about parseLooseAnalysisRow ----
\* The content was written as a configured key (in any case), a separator of
\* the given set and a value.
WrittenAsKeySeparatorValue(seps) ==
    /\ [i \in 1 .. Len(lParts.key) |-> LowerCase(lParts.key[i])] = KeyText("pain")
    /\ lParts.sep \in seps
    /\ lParts.value # <<>>

LooseClaim(seps) ==
    /\ lPc # "ready" =>
          /\ DOMAIN lRow = FieldKeys
          /\ WrittenAsKeySeparatorValue(seps) => lRow["pain"] = Trim(lParts.value)
    /\ lPc = "accepted" => \E k \in FieldKeys : lRow[k] # <<>>
    /\ lPc = "nothing" => \A k \in FieldKeys : lRow[k] = <<>>
    /\ lPc \in {"accepted", "nothing"} =>
          (WrittenAsKeySeparatorValue(seps) => lPc = "accepted")

\* C34: for each configured key the loose value is taken from a text of the
\* form key, separator, value, whatever the case of the key, the separator
\* being a hyphen, an en dash, an em dash, a colon or an equals sign; the
\* loose row is accepted iff some configured field has a non-empty value, and
\* otherwise the content counts as having given nothing.
C34_LooseKeySeparatorValue == LooseClaim({"-", EnDash, EmDash, ":", "="})

\* The same statement without the en dash.
C34_LooseKeySeparatorValueNoEnDash == LooseClaim({"-", EmDash, ":", "="})

\* ------------------------------------------------------------------------
\* loadFallbackModels, normalizeModels and the models tried for a session
\* ------------------------------------------------------------------------
\* Longest list of models in config/fallback-models.json in the model.
MaxFileModels == 3

\* DEFAULT_FALLBACK_MODELS: five distinct lower-case names.
DefaultFallbackModels ==
    <<<<"m", "1">>, <<"m", "2">>, <<"m", "3">>, <<"m", "4">>, <<"m", "5">>>>

\* Entries of the file: names in either case, with white space around them,
\* made of white space only, or empty.
FileEntries == {<<"a">>, <<"A">>, <<" ", "a">>, <<"n">>, <<" ">>, <<>>}

PrimaryModels == {<<"a">>, <<"A">>, <<"m", "2">>}

\* String.prototype.toLowerCase
ToLowerCase(s) == [i \in 1 .. Len(s) |-> LowerCase(s[i])]

\* The file is missing or is not JSON; it is a JSON array; it is an object
\* with the key "models"; it is some other JSON value.
FileKinds == {"missing", "array", "object", "other"}

FileLists == UNION {[1 .. n -> FileEntries] : n \in 0 .. MaxFileModels}

FallbackFiles ==
    {[kind |-> k, models |-> ms] : k \in {"array", "object"}, ms \in FileLists}
        \cup {[kind |-> k, models |-> <<>>] : k \in {"missing", "other"}}

\* ModelsArraySchema: z.array(z.string().min(1)).min(1)
ModelsArraySchemaAccepts(ms) ==
    Len(ms) >= 1 /\ \A i \in 1 .. Len(ms) : Len(ms[i]) >= 1

\* listResult.success or configResult.success
FileIsValid(file) ==
    file.kind \in {"array", "object"} /\ ModelsArraySchemaAccepts(file.models)

\* The loop of normalizeModels from entry i on, with the set seen and the
\* list normalized built so far.
RECURSIVE NormalizeFrom(_, _, _, _, _)
NormalizeFrom(models, primaryModel, i, seen, normalized) ==
    IF i > Len(models) THEN normalized
    ELSE LET trimmed == Trim(models[i])
             key == ToLowerCase(trimmed)
         IN IF trimmed = <<>> \/ trimmed = primaryModel \/ key \in seen
            THEN NormalizeFrom(models, primaryModel, i + 1, seen, normalized)
            ELSE NormalizeFrom(models, primaryModel, i + 1, seen \cup {key},
                               Append(normalized, trimmed))

NormalizeModels(models, primaryModel) ==
    NormalizeFrom(models, primaryModel, 1, {}, <<>>)

FallbackInit ==
    /\ fbPrimary \in PrimaryModels
    /\ fbFile \in FallbackFiles
    /\ fbModels = <<>>
    /\ fbSource = "none"
    /\ fbTry = <<>>
    /\ fbPc = "ready"

\* loadFallbackModels: the file is read, parsed and accepted by one of the
\* two schemas.
LoadFromFile ==
    /\ fbPc = "ready"
    /\ FileIsValid(fbFile)
    /\ fbModels' = NormalizeModels(fbFile.models, fbPrimary)
    /\ fbSource' = "file"
    /\ fbPc' = "loaded"
    /\ UNCHANGED <<fbPrimary, fbFile, fbTry>>
    /\ UNCHANGED nonFallbackVars

\* loadFallbackModels, catch: the built-in list.
LoadDefault ==
    /\ fbPc = "ready"
    /\ ~FileIsValid(fbFile)
    /\ fbModels' = NormalizeModels(DefaultFallbackModels, fbPrimary)
    /\ fbSource' = "default"
    /\ fbPc' = "loaded"
    /\ UNCHANGED <<fbPrimary, fbFile, fbTry>>
    /\ UNCHANGED nonFallbackVars

\* analyzeInterviews: modelsToTry = [config.models.analyzer, ...fallback.models]
ListModelsToTry ==
    /\ fbPc = "loaded"
    /\ fbTry' = <<fbPrimary>> \o fbModels
    /\ fbPc' = "listed"
    /\ UNCHANGED <<fbPrimary, fbFile, fbModels, fbSource>>
    /\ UNCHANGED nonFallbackVars

FallbackNext == LoadFromFile \/ LoadDefault \/ ListModelsToTry

FallbackIdle ==
    /\ fbPrimary = <<>>
    /\ fbFile = [kind |-> "missing", models |-> <<>>]
    /\ fbModels = <<>>
    /\ fbSource = "none"
    /\ fbTry = <<>>
    /\ fbPc = "idle"

\* ---- claims about the fallback models ----
\* The list the fallback models were taken from.
SourceList == IF fbSource = "file" THEN fbFile.models ELSE DefaultFallbackModels

\* Index in the source list of the first entry that is not the primary model
\* and is the n-th fallback model ignoring case and surrounding white space.
FirstOccurrence(n) ==
    SetMin({i \in 1 .. Len(SourceList) :
               /\ Trim(SourceList[i]) # fbPrimary
               /\ ToLowerCase(Trim(SourceList[i])) = ToLowerCase(fbModels[n])})

\* The fallback list: without the primary model, without two entries equal
\* ignoring case, without an empty entry, made of the first occurrences in
\* the order of the source list and leaving out no other name of it.
FallbackListNormalized ==
    fbPc \in {"loaded", "listed"} =>
        /\ \A n \in 1 .. Len(fbModels) :
              /\ fbModels[n] # fbPrimary
              /\ fbModels[n] # <<>>
              /\ \E i \in 1 .. Len(SourceList) :
                    Trim(SourceList[i]) # fbPrimary
                        /\ ToLowerCase(Trim(SourceList[i])) = ToLowerCase(fbModels[n])
              /\ fbModels[n] = Trim(SourceList[FirstOccurrence(n)])
        /\ \A n, o \in 1 .. Len(fbModels) :
              /\ n # o => ToLowerCase(fbModels[n]) # ToLowerCase(fbModels[o])
              /\ n < o => FirstOccurrence(n) < FirstOccurrence(o)
        /\ \A i \in 1 .. Len(SourceList) :
              (Trim(SourceList[i]) # <<>> /\ Trim(SourceList[i]) # fbPrimary) =>
                  \E n \in 1 .. Len(fbModels) :
                      ToLowerCase(fbModels[n]) = ToLowerCase(Trim(SourceList[i]))
        /\ fbSource = "file" <=> FileIsValid(fbFile)

\* C35: the models tried for a session never hold the same model twice,
\* a model being the same as another when the names are equal ignoring case
\* (the comparison normalizeModels makes between entries); and the fallback
\* list is normalized, from the file or from the built-in list.
C35_NoModelTwice ==
    /\ FallbackListNormalized
    /\ fbPc = "listed" =>
          \A n, o \in 1 .. Len(fbTry) :
              n # o => ToLowerCase(fbTry[n]) # ToLowerCase(fbTry[o])

\* The same statement with the primary model compared exactly, as
\* normalizeModels compares it: the models tried never hold the same name
\* twice, and no two fallback models are equal ignoring case.
C35_NoNameTwice ==
    /\ FallbackListNormalized
    /\ fbPc = "listed" =>
          /\ fbTry[1] = fbPrimary
          /\ \A n, o \in 1 .. Len(fbTry) : n # o => fbTry[n] # fbTry[o]
          /\ \A n, o \in 2 .. Len(fbTry) :
                n # o => ToLowerCase(fbTry[n]) # ToLowerCase(fbTry[o])

\* ------------------------------------------------------------------------
\* Specifications
\* ------------------------------------------------------------------------
InitClient == ClientInit /\ BatchIdle /\ AnalyzeIdle /\ SessionIdle /\ ExtractIdle /\ ProgressIdle /\ AllocIdle /\ KeyIdle /\ LooseIdle /\ FallbackIdle

SpecClient == InitClient /\ [][ClientNext]_vars

\* Every post is answered: it resolves, is rejected, or times out (axios timeout).
SpecClientFair == InitClient /\ [][ClientNext]_vars /\ WF_vars(ClientNext)

InitBatch == BatchInit /\ ClientIdle /\ AnalyzeIdle /\ SessionIdle /\ ExtractIdle /\ ProgressIdle /\ AllocIdle /\ KeyIdle /\ LooseIdle /\ FallbackIdle

SpecBatch == InitBatch /\ [][BatchNext]_vars

InitAnalyze == AnalyzeInit /\ ClientIdle /\ BatchIdle /\ SessionIdle /\ ExtractIdle /\ ProgressIdle /\ AllocIdle /\ KeyIdle /\ LooseIdle /\ FallbackIdle

SpecAnalyze == InitAnalyze /\ [][AnalyzeNext]_vars

InitSession == SessionInit /\ ClientIdle /\ BatchIdle /\ AnalyzeIdle /\ ExtractIdle /\ ProgressIdle /\ AllocIdle /\ KeyIdle /\ LooseIdle /\ FallbackIdle

SpecSession == InitSession /\ [][SessionNext]_vars


InitExtract == ExtractInit /\ ClientIdle /\ BatchIdle /\ AnalyzeIdle /\ SessionIdle /\ ProgressIdle /\ AllocIdle /\ KeyIdle /\ LooseIdle /\ FallbackIdle

SpecExtract == InitExtract /\ [][ExtractNext]_vars

InitProgress ==
    ProgressInit /\ ClientIdle /\ BatchIdle /\ AnalyzeIdle /\ SessionIdle /\ ExtractIdle /\ AllocIdle /\ KeyIdle /\ LooseIdle /\ FallbackIdle

SpecProgress == InitProgress /\ [][ProgressNext]_vars

InitAlloc ==
    AllocInit /\ ClientIdle /\ BatchIdle /\ AnalyzeIdle /\ SessionIdle /\ ExtractIdle /\ ProgressIdle /\ KeyIdle /\ LooseIdle /\ FallbackIdle

SpecAlloc == InitAlloc /\ [][AllocNext]_vars

InitKey ==
    KeyInit /\ ClientIdle /\ BatchIdle /\ AnalyzeIdle /\ SessionIdle /\ ExtractIdle /\ ProgressIdle /\ AllocIdle /\ LooseIdle /\ FallbackIdle

SpecKey == InitKey /\ [][KeyNext]_vars

InitLoose ==
    LooseInit /\ ClientIdle /\ BatchIdle /\ AnalyzeIdle /\ SessionIdle /\ ExtractIdle /\ ProgressIdle /\ AllocIdle /\ KeyIdle /\ FallbackIdle

SpecLoose == InitLoose /\ [][LooseNext]_vars

InitFallback ==
    FallbackInit /\ ClientIdle /\ BatchIdle /\ AnalyzeIdle /\ SessionIdle /\ ExtractIdle /\ ProgressIdle /\ AllocIdle /\ KeyIdle /\ LooseIdle

SpecFallback == InitFallback /\ [][FallbackNext]_vars

====
